---------------------------- MODULE Spec2Model ----------------------------
(***************************************************************************)
(* A model of the time-series engine of SimFin: the period converter       *)
(* (simfin/utils.py), the change calculators (simfin/rel_change.py), the   *)
(* resampling functions (simfin/resample.py) and the signal assemblers     *)
(* (simfin/signals.py).                                                    *)
(*                                                                         *)
(* Numbers.  The code computes in binary floating point.  The model        *)
(* computes with exact rationals <<n, d>> (d > 0, lowest terms), the       *)
(* no-value NaN, and symbolic powers and logarithms, so that two results   *)
(* are equal in the model exactly when they are the same real number.      *)
(***************************************************************************)
EXTENDS Integers, Sequences, FiniteSets, TLC

VARIABLES
    freq,       \* convert_to_periods: the argument freq
    dur,        \* convert_to_periods: the arguments bdays .. years
    conv,       \* convert_to_periods: what the call did
    df,         \* the DataFrame / Series passed to the function called
    call,       \* the function called last, with its arguments
    out,        \* what that call did: the exception raised or the result
    mem,        \* the pandas objects in memory, the inputs of the call first
    disk,       \* the files on disk: their modification times and contents
    now         \* time.time()

vars == <<freq, dur, conv, df, call, out, mem, disk, now>>

----------------------------------------------------------------------------
(* Bounds of the model.                                                    *)

MaxBdays == 1
MaxDays == 1
MaxWeeks == 1
MaxMonths == 2
MaxQuarters == 2
MaxYears == 1
\* Rows of the first and of the second ticker of a DataFrame.
MaxLen == 3
MaxLenB == 1
\* The argument quarters of rel_change.
MaxShift == 7
\* Rows of the first ticker, and the arguments min_quarters and
\* max_quarters, of mean_log_change.
MaxLenM == 3
MaxWin == 3
\* The dates of a panel of two stocks are among 1..MaxDate.
MaxDate == 3
\* The reports of stock A that the signal functions get.
MaxReports == 9

----------------------------------------------------------------------------
(* Exact rational arithmetic.                                              *)

Abs(x) == IF x < 0 THEN -x ELSE x

RECURSIVE GCD(_, _)
GCD(a, b) == IF b = 0 THEN Abs(a) ELSE GCD(b, a % b)

LCM(a, b) == (a \div GCD(a, b)) * b

\* The rational n/d in lowest terms with a positive denominator.
Rat(n, d) ==
    LET s == IF d < 0 THEN -1 ELSE 1
        g == GCD(n, d)
    IN  <<(s * n) \div g, (s * d) \div g>>

RInt(i) == <<i, 1>>
RAdd(x, y) == Rat(x[1] * y[2] + y[1] * x[2], x[2] * y[2])
RNeg(x) == <<-x[1], x[2]>>
RSub(x, y) == RAdd(x, RNeg(y))
RMul(x, y) == Rat(x[1] * y[1], x[2] * y[2])
RInv(x) == Rat(x[2], x[1])
RDiv(x, y) == RMul(x, RInv(y))
RLeq(x, y) == x[1] * y[2] <= y[1] * x[2]

----------------------------------------------------------------------------
(* simfin/utils.py: the constants and convert_to_periods.                  *)

\* 251.67, as the exact rational 25167/100.
BDAYS_PER_YEAR == <<25167, 100>>
\* 365.25, as the exact rational 1461/4.
DAYS_PER_YEAR == <<1461, 4>>
WEEKS_PER_YEAR == 52
MONTHS_PER_YEAR == 12
QUARTERS_PER_YEAR == 4

Units == <<"bdays", "days", "weeks", "months", "quarters", "years">>

\* The divisor of each argument in the sum total_years.
PerYear(u) ==
    CASE u = "bdays" -> BDAYS_PER_YEAR
      [] u = "days" -> DAYS_PER_YEAR
      [] u = "weeks" -> RInt(WEEKS_PER_YEAR)
      [] u = "months" -> RInt(MONTHS_PER_YEAR)
      [] u = "quarters" -> RInt(QUARTERS_PER_YEAR)
      [] u = "years" -> RInt(1)

\* str.lower() on the strings the model passes as freq.
Lower(s) ==
    CASE s = "Q" -> "q"
      [] s = "BDays" -> "bdays"
      [] s = "TTM" -> "ttm"
      [] s = "Daily" -> "daily"
      [] OTHER -> s

\* The if-chain without the test of the last branch: every other string is
\* taken for years.
FreqUnit_default_years(f) ==
    LET l == Lower(f) IN
    CASE l \in {"bdays", "b"} -> "bdays"
      [] l \in {"days", "d"} -> "days"
      [] l \in {"weeks", "w"} -> "weeks"
      [] l \in {"months", "m"} -> "months"
      [] l \in {"quarters", "q", "ttm"} -> "quarters"
      [] OTHER -> "years"

\* The branch of the if-chain that freq.lower() selects: the unit whose
\* per-year constant converts total_years to periods, "none" for the else.
FreqUnit(f) ==
    LET l == Lower(f) IN
    CASE l \in {"bdays", "b"} -> "bdays"
      [] l \in {"days", "d"} -> "days"
      [] l \in {"weeks", "w"} -> "weeks"
      [] l \in {"months", "m"} -> "months"
      [] l \in {"quarters", "q", "ttm"} -> "quarters"
      [] l \in {"years", "y", "annual", "a"} -> "years"
      [] OTHER -> "none"

Zero == <<0, 1>>

\* A number as a mixed fraction [i, n, d]: i + n/d with 0 <= n < d.
Mixed(i, n, d) == [i |-> i, n |-> n, d |-> d]

\* c / PerYear(u) * PerYear(fu) in lowest terms: one term of the sum
\* total_years, multiplied by the per-year constant of the frequency.
Term(fu, u, c) ==
    RMul(RDiv(RInt(c), PerYear(u)), PerYear(fu))

\* A sign slip in the sum total_years: the weeks are subtracted.
TermSign_weeks_subtracted(u) == IF u = "weeks" THEN -1 ELSE 1

\* The sign of each term of the sum total_years: all are added.
TermSign(u) == 1

\* PerYear(fu) * total_years as a mixed fraction.  The product is
\* distributed over the six terms of total_years, which is the same number
\* and keeps every intermediate value a machine integer.
RECURSIVE SumTerms(_, _, _, _)
SumTerms(fu, d, k, den) ==
    IF k = 0 THEN Mixed(0, 0, den)
    ELSE LET rest == SumTerms(fu, d, k - 1, den)
             t == Term(fu, Units[k], d[Units[k]])
             ti == TermSign(Units[k]) * t[1]
             n == rest.n + (ti % t[2]) * (den \div t[2])
         IN  Mixed(rest.i + (ti \div t[2]) + (n \div den), n % den, den)

RECURSIVE TermsDen(_, _)
TermsDen(fu, k) ==
    IF k = 0 THEN 1
    ELSE LCM(TermsDen(fu, k - 1), Term(fu, Units[k], 1)[2])

YearsTimes(fu, d) == SumTerms(fu, d, 6, TermsDen(fu, 6))

\* Truncation in place of rounding.
round_truncates(x) == x.i

\* Python 3's round(x) on a float: to the nearest integer, a tie to the
\* even one.
round(x) ==
    IF 2 * x.n < x.d THEN x.i
    ELSE IF 2 * x.n > x.d THEN x.i + 1
    ELSE IF x.i % 2 = 0 THEN x.i ELSE x.i + 1

\* total_years as a rational (for durations whose sum stays in range).
RECURSIVE total_years(_, _)
total_years(d, k) ==
    IF k = 0 THEN Zero
    ELSE RAdd(total_years(d, k - 1), RDiv(RInt(d[Units[k]]), PerYear(Units[k])))

\* shifted_years taken from the nominal total_years, not from the periods.
convert_to_periods_nominal_years(f, d) ==
    LET fu == FreqUnit(f)
        periods == round(YearsTimes(fu, d))
    IN  IF fu = "none"
        THEN [err |-> "ValueError", periods |-> 0, shifted_years |-> <<0, 1>>]
        ELSE [err |-> "none", periods |-> periods,
              shifted_years |-> total_years(d, 6)]

\* convert_to_periods(freq, bdays, ..., years): ValueError for a frequency
\* none of the branches accepts, else (periods, shifted_years).
convert_to_periods(f, d) ==
    LET fu == FreqUnit(f)
        periods == round(YearsTimes(fu, d))
    IN  IF fu = "none"
        THEN [err |-> "ValueError", periods |-> 0, shifted_years |-> <<0, 1>>]
        ELSE [err |-> "none", periods |-> periods,
              shifted_years |-> RDiv(RInt(periods), PerYear(fu))]

----------------------------------------------------------------------------
(* Values and frames.                                                      *)

\* The no-value of Pandas, NaN.  A number is a rational <<n, d>> with d > 0.
NaN == <<0, 0>>
IsNaN(x) == x[2] = 0
One == <<1, 1>>

\* Float arithmetic on numbers and NaN: NaN in gives NaN out.  The model's
\* data is NaN or positive, so no division is by zero.
VDiv(x, y) == IF IsNaN(x) \/ IsNaN(y) THEN NaN ELSE RDiv(x, y)
VSub(x, y) == IF IsNaN(x) \/ IsNaN(y) THEN NaN ELSE RSub(x, y)
VAdd(x, y) == IF IsNaN(x) \/ IsNaN(y) THEN NaN ELSE RAdd(x, y)
VMul(x, y) == IF IsNaN(x) \/ IsNaN(y) THEN NaN ELSE RMul(x, y)

\* x ** e - 1 for a rational exponent e, kept symbolic as <<n, d, en, ed>>.
VPowSub1(x, e) == IF IsNaN(x) THEN NaN ELSE <<x[1], x[2], e[1], e[2]>>

\* A DataFrame or Series with one column: the kind of its index and its
\* rows in index order.  A row of a MultiIndex frame is keyed by (ticker,
\* date); a row of a DatetimeIndex frame has the ticker "".
Row(t, d, v) == [ticker |-> t, date |-> d, val |-> v]
\* A function on 1..n as the sequence of its values.
AsSeq(s) == s \o <<>>

Frame(k, rows) == [kind |-> k, rows |-> AsSeq(rows)]

\* The tickers of the model, in sort order.
TICKERS == <<"A", "B">>

RECURSIVE Concat(_)
Concat(ss) == IF ss = <<>> THEN <<>> ELSE Head(ss) \o Concat(Tail(ss))

----------------------------------------------------------------------------
(* simfin/rel_change.py: rel_change.                                       *)

\* Series.shift(periods): row i takes the value of row i - periods, NaN
\* where there is no such row.  The index is unchanged.
shift(g, periods) ==
    [i \in 1..Len(g) |->
        Row(g[i].ticker, g[i].date,
            IF i - periods >= 1 /\ i - periods <= Len(g)
            THEN g[i - periods].val ELSE NaN)]

\* Element-wise division of two series with the same index.
SeriesDiv(g, h) ==
    [i \in 1..Len(g) |-> Row(g[i].ticker, g[i].date, VDiv(g[i].val, h[i].val))]

\* The quotient turned over: the shifted values divided by the values.
_rel_change_inverted(df_grp, periods, future) ==
    LET df_grp_result == SeriesDiv(shift(df_grp, periods), df_grp)
    IN  IF future THEN shift(df_grp_result, -periods) ELSE df_grp_result

\* The future change without the second shift.
_rel_change_not_shifted_back(df_grp, periods, future) ==
    SeriesDiv(df_grp, shift(df_grp, IF future THEN -periods ELSE periods))

\* _rel_change(df_grp), with the periods and future of the enclosing call.
_rel_change(df_grp, periods, future) ==
    LET df_grp_result == SeriesDiv(df_grp, shift(df_grp, periods))
    IN  IF future THEN shift(df_grp_result, -periods) ELSE df_grp_result

----------------------------------------------------------------------------
(* Logarithms.  np.log of the data is kept symbolic: the data of           *)
(* mean_log_change in the model is 2, 3 or 5, whose logarithms are         *)
(* linearly independent over the rationals, so a number in log-space is a  *)
(* triple of rational coefficients <<c2, c3, c5>> standing for             *)
(* c2 log 2 + c3 log 3 + c5 log 5, and two such numbers are equal exactly  *)
(* when their coefficients are.  A log-space value is <<tag, c>> with tag  *)
(* "fin", "nan", "inf" or "-inf".                                          *)

LZero == <<Zero, Zero, Zero>>
LFin(c) == <<"fin", c>>
LNaN == <<"nan", LZero>>
LInf(sgn) == <<IF sgn > 0 THEN "inf" ELSE "-inf", LZero>>
LIsInf(a) == a[1] \in {"inf", "-inf"}
LInfSign(a) == IF a[1] = "inf" THEN 1 ELSE -1

\* np.log on a value of the data.
Log(v) ==
    CASE IsNaN(v) -> LNaN
      [] v = <<2, 1>> -> LFin(<<One, Zero, Zero>>)
      [] v = <<3, 1>> -> LFin(<<Zero, One, Zero>>)
      [] v = <<5, 1>> -> LFin(<<Zero, Zero, One>>)

\* The sign of a finite log-space number whose coefficients do not differ in
\* sign (the only ones the code multiplies by an infinite exponent).
LSign(a) ==
    LET c == a[2] IN
    IF \A i \in 1..3 : c[i][1] = 0 THEN 0
    ELSE IF \A i \in 1..3 : c[i][1] >= 0 THEN 1 ELSE -1

LAdd(a, b) ==
    IF a[1] = "nan" \/ b[1] = "nan" THEN LNaN
    ELSE IF LIsInf(a) /\ LIsInf(b)
         THEN IF a[1] = b[1] THEN a ELSE LNaN
    ELSE IF LIsInf(a) THEN a
    ELSE IF LIsInf(b) THEN b
    ELSE LFin([i \in 1..3 |-> RAdd(a[2][i], b[2][i])])

\* A float that may be NaN <<0, 0>> or +inf <<1, 0>>: the exponents.
EInf == <<1, 0>>
EIsInf(e) == e[2] = 0 /\ e[1] # 0
ESign(e) == IF e[1] > 0 THEN 1 ELSE IF e[1] < 0 THEN -1 ELSE 0

\* Numpy's 1.0 / x on an array element: inf for x = 0, no exception.
EInv(x) == IF IsNaN(x) THEN NaN ELSE IF x[1] = 0 THEN EInf ELSE RInv(x)
\* Numpy's a / b on array elements with a, b >= 0 integers: nan for 0 / 0.
EDivInt(a, b) == IF b = 0 THEN (IF a = 0 THEN NaN ELSE EInf) ELSE Rat(a, b)
EAdd(x, y) ==
    IF IsNaN(x) \/ IsNaN(y) THEN NaN
    ELSE IF EIsInf(x) \/ EIsInf(y) THEN EInf
    ELSE RAdd(x, y)
EMul(x, y) ==
    IF IsNaN(x) \/ IsNaN(y) THEN NaN
    ELSE IF EIsInf(x) \/ EIsInf(y)
         THEN (IF ESign(x) * ESign(y) = 0 THEN NaN ELSE EInf)
    ELSE RMul(x, y)

\* a * e for a log-space value a and a float e.
LScale(a, e) ==
    IF a[1] = "nan" \/ IsNaN(e) THEN LNaN
    ELSE IF LIsInf(a)
         THEN (IF ESign(e) = 0 THEN LNaN ELSE LInf(LInfSign(a) * ESign(e)))
    ELSE IF EIsInf(e)
         THEN (IF LSign(a) = 0 THEN LNaN ELSE LInf(LSign(a) * ESign(e)))
    ELSE LFin([i \in 1..3 |-> RMul(a[2][i], e)])

LSub(a, b) == LAdd(a, LScale(b, <<-1, 1>>))

RECURSIVE ESum(_)
ESum(es) == IF es = <<>> THEN Zero ELSE EAdd(Head(es), ESum(Tail(es)))

RECURSIVE LSum(_)
LSum(ls) == IF ls = <<>> THEN LFin(LZero) ELSE LAdd(Head(ls), LSum(Tail(ls)))

Reverse(s) == [i \in 1..Len(s) |-> s[Len(s) + 1 - i]]

----------------------------------------------------------------------------
(* simfin/rel_change.py: mean_log_change.                                  *)

\* The array of exponents in the order of the periods, never flipped.
exponent_not_flipped(annualized, future, cmin, cmax) ==
    [i \in 1..(cmax.periods - cmin.periods) |->
        IF annualized
        THEN EInv(EAdd(EMul(RSub(cmax.shifted_years, cmin.shifted_years),
                            EDivInt(i - 1, cmax.periods - cmin.periods - 1)),
                       cmin.shifted_years))
        ELSE EInv(RInt(cmin.periods + i - 1))]

\* The array of exponents of the windowing-slice.
exponent(annualized, future, cmin, cmax) ==
    LET min_periods == cmin.periods
        max_periods == cmax.periods
        min_shifted_years == cmin.shifted_years
        max_shifted_years == cmax.shifted_years
        num_periods == max_periods - min_periods
        \* np.arange(num_periods) / (num_periods-1)
        x == [i \in 1..num_periods |-> EDivInt(i - 1, num_periods - 1)]
        shifted_years ==
            [i \in 1..num_periods |->
                EAdd(EMul(RSub(max_shifted_years, min_shifted_years), x[i]),
                     min_shifted_years)]
        e == IF annualized
             THEN [i \in 1..num_periods |-> EInv(shifted_years[i])]
             \* 1.0 / np.arange(min_periods, max_periods)
             ELSE [i \in 1..num_periods |-> EInv(RInt(min_periods + i - 1))]
    IN  IF ~future THEN Reverse(e) ELSE e

\* _dot_product(x) = np.sum(x * exponent) on the values of one window.
_dot_product(x, e) == LSum([i \in 1..Len(x) |-> LScale(x[i], e[i])])

\* df_log_grp.rolling(num_periods).apply(_dot_product, raw=True): row i gets
\* the function of the rows i-num_periods+1 .. i, and NaN while the window
\* is not full or holds a NaN.
rolling_apply(g, num_periods, e) ==
    [i \in 1..Len(g) |->
        Row(g[i].ticker, g[i].date,
            IF i < num_periods
               \/ \E j \in (i - num_periods + 1)..i : g[j].val[1] = "nan"
            THEN LNaN
            ELSE _dot_product([j \in 1..num_periods |->
                                  g[i - num_periods + j].val], e))]

\* Series.shift on a series of log-space values.
lshift(g, periods) ==
    [i \in 1..Len(g) |->
        Row(g[i].ticker, g[i].date,
            IF i - periods >= 1 /\ i - periods <= Len(g)
            THEN g[i - periods].val ELSE LNaN)]

\* _mean_log_change(df_log_grp), with the variables of the enclosing call.
_mean_log_change(df_log_grp, future, min_periods, max_periods, e) ==
    LET num_periods == max_periods - min_periods
        exponent_sum == ESum(e)
        df_windowed == rolling_apply(df_log_grp, num_periods, e)
        shifted == IF future THEN lshift(df_windowed, -max_periods)
                   ELSE lshift(df_windowed, min_periods)
    IN  [i \in 1..Len(df_log_grp) |->
            Row(df_log_grp[i].ticker, df_log_grp[i].date,
                LScale(IF future
                       THEN LSub(shifted[i].val,
                                 LScale(df_log_grp[i].val, exponent_sum))
                       ELSE LSub(LScale(df_log_grp[i].val, exponent_sum),
                                 shifted[i].val),
                       Rat(1, num_periods)))]

----------------------------------------------------------------------------
(* simfin/resample.py: the fill functions.  Dates are day numbers.  The    *)
(* functions of the string keywords are the pandas methods they name; the  *)
(* model has ffill, bfill, linear and mean.                                *)

\* The positions before i (after i) of a series that hold a value.
ValidBefore(g, i) == {j \in 1..i : ~IsNaN(g[j].val)}
ValidAfter(g, i) == {j \in i..Len(g) : ~IsNaN(g[j].val)}
MaxOf(S) == CHOOSE x \in S : \A y \in S : y <= x
MinOf(S) == CHOOSE x \in S : \A y \in S : x <= y

\* df.ffill(limit=1): a NaN takes the value of the row before it.
ffill_limit_1(g) ==
    [i \in 1..Len(g) |->
        Row(g[i].ticker, g[i].date,
            IF IsNaN(g[i].val) /\ i > 1 THEN g[i - 1].val ELSE g[i].val)]

\* df.ffill(): a NaN takes the last value before it, if there is one.
ffill(g) ==
    [i \in 1..Len(g) |->
        Row(g[i].ticker, g[i].date,
            IF ValidBefore(g, i) = {} THEN NaN
            ELSE g[MaxOf(ValidBefore(g, i))].val)]

\* df.bfill(): a NaN takes the first value after it, if there is one.
bfill(g) ==
    [i \in 1..Len(g) |->
        Row(g[i].ticker, g[i].date,
            IF ValidAfter(g, i) = {} THEN NaN
            ELSE g[MinOf(ValidAfter(g, i))].val)]

\* df.interpolate(method='linear'): the rows count as equally spaced; a NaN
\* between two values lies on the line through them, a NaN after the last
\* value takes that value, a NaN before the first value stays.
interpolate_linear(g) ==
    [i \in 1..Len(g) |->
        Row(g[i].ticker, g[i].date,
            IF ValidBefore(g, i) = {} THEN NaN
            ELSE IF ValidAfter(g, i) = {} THEN g[MaxOf(ValidBefore(g, i))].val
            ELSE LET lo == MaxOf(ValidBefore(g, i))
                     hi == MinOf(ValidAfter(g, i))
                 IN  IF lo = hi THEN g[i].val
                     ELSE RAdd(g[lo].val,
                               RMul(RSub(g[hi].val, g[lo].val),
                                    Rat(i - lo, hi - lo))))]

\* The conversion with the forward fill in the place of a method that is no
\* keyword.
_convert_method_arg_default_ffill(method) ==
    IF method \in {"ffill", "bfill", "linear", "quadratic", "mean"}
    THEN [err |-> "none", func |-> method]
    ELSE [err |-> "none", func |-> "ffill"]

\* _convert_method_arg(method): the fill function of a keyword ("none" is
\* the method None), or the error it raises.
_convert_method_arg(method) ==
    IF method \in {"ffill", "bfill", "linear", "quadratic", "mean"}
    THEN [err |-> "none", func |-> method]
    ELSE [err |-> "ValueError", func |-> "none"]

\* fill_func(df_grp) of reindex: the fill function on the rows of a group.
fill_func(method, g) ==
    CASE method = "ffill" -> ffill(g)
      [] method = "bfill" -> bfill(g)
      [] method = "linear" -> interpolate_linear(g)

\* df_grp.resample(rule): the labels of the bins of rule days, from the
\* first date of the group up to the bin that holds its last date.
BinLabels(g, rule) ==
    IF g = <<>> THEN <<>>
    ELSE [j \in 1..((g[Len(g)].date - g[1].date) \div rule + 1) |->
             g[1].date + (j - 1) * rule]

\* The positions of the rows of g with a date in S.
RowsIn(g, S) == {j \in 1..Len(g) : g[j].date \in S}

\* The sum of the values at the positions P of g.
RECURSIVE SumAt(_, _)
SumAt(g, P) ==
    IF P = {} THEN Zero
    ELSE LET j == CHOOSE x \in P : TRUE
         IN  RAdd(g[j].val, SumAt(g, P \ {j}))

\* x.ffill() on a resampler: a label takes the row at or last before it,
\* whatever that row holds.
resample_ffill(g, rule) ==
    LET L == BinLabels(g, rule)
    IN  [j \in 1..Len(L) |->
            Row("", L[j], g[MaxOf(RowsIn(g, g[1].date..L[j]))].val)]

\* x.bfill() on a resampler: a label takes the row at or first after it.
resample_bfill(g, rule) ==
    LET L == BinLabels(g, rule)
    IN  [j \in 1..Len(L) |->
            LET P == RowsIn(g, L[j]..g[Len(g)].date)
            IN  Row("", L[j], IF P = {} THEN NaN ELSE g[MinOf(P)].val)]

\* x.asfreq() on a resampler: a label takes the row at its date.
resample_asfreq(g, rule) ==
    LET L == BinLabels(g, rule)
    IN  [j \in 1..Len(L) |->
            LET P == RowsIn(g, {L[j]})
            IN  Row("", L[j], IF P = {} THEN NaN ELSE g[MinOf(P)].val)]

\* x.mean() on a resampler: a label takes the mean of the values of its bin.
resample_mean(g, rule) ==
    LET L == BinLabels(g, rule)
    IN  [j \in 1..Len(L) |->
            LET P == {i \in RowsIn(g, L[j]..(L[j] + rule - 1)) :
                        ~IsNaN(g[i].val)}
            IN  Row("", L[j],
                    IF P = {} THEN NaN
                    ELSE RDiv(SumAt(g, P), RInt(Cardinality(P))))]

\* _resample(df_grp): fill_func(df_grp.resample(rule)).
_resample(df_grp, rule, method) ==
    CASE method = "ffill" -> resample_ffill(df_grp, rule)
      [] method = "bfill" -> resample_bfill(df_grp, rule)
      [] method = "linear" -> interpolate_linear(resample_asfreq(df_grp, rule))
      [] method = "mean" -> resample_mean(df_grp, rule)

----------------------------------------------------------------------------
(* simfin/transform.py and simfin/signals.py: the functions of one stock   *)
(* that the signal functions hand to apply.                                *)

\* avg_ttm_2y(df): 0.5 * (df + df.shift(4)).
avg_ttm_2y(g) ==
    [i \in 1..Len(g) |->
        Row(g[i].ticker, g[i].date,
            VMul(<<1, 2>>, VAdd(g[i].val, shift(g, 4)[i].val)))]

\* _signals(df) of fin_signals, one signal at a time.  The value of a row
\* is the tuple of the columns the signal reads:
\* NET_PROFIT_MARGIN = NET_INCOME / REVENUE, from <<NET_INCOME, REVENUE>>;
\* PAYOUT_RATIO = -DIVIDENDS_PAID.fillna(0) / FCF, from <<DIVIDENDS_PAID, FCF>>.
_signals(g, signal) ==
    [i \in 1..Len(g) |->
        Row(g[i].ticker, g[i].date,
            CASE signal = "NET_PROFIT_MARGIN" ->
                    VDiv(g[i].val[1], g[i].val[2])
              [] signal = "PAYOUT_RATIO" ->
                    VDiv(RNeg(IF IsNaN(g[i].val[1]) THEN Zero ELSE g[i].val[1]),
                         g[i].val[2]))]

----------------------------------------------------------------------------
(* simfin/signals.py: trade_signals.  The rows of the two signals are side *)
(* by side, the value of a row being the pair, and the value of a row of   *)
(* the result is the record of its columns BUY, SELL and HOLD.             *)

\* df[signal1] >= df[signal2]: false where a value is missing.
df_above(df_grp) ==
    [i \in 1..Len(df_grp) |->
        /\ ~IsNaN(df_grp[i].val[1])
        /\ ~IsNaN(df_grp[i].val[2])
        /\ RLeq(df_grp[i].val[2], df_grp[i].val[1])]

\* above.shift(1, fill_value=fill_value) at row i.
shift_1(above, i, fill_value) == IF i = 1 THEN fill_value ELSE above[i - 1]

\* _signals with the first row of BUY compared with False.
_signals_trade_fill_false(df_grp) ==
    LET above == df_above(df_grp)
    IN  [i \in 1..Len(df_grp) |->
            Row(df_grp[i].ticker, df_grp[i].date,
                [BUY |-> above[i] /\ ~shift_1(above, i, FALSE),
                 SELL |-> ~above[i] /\ shift_1(above, i, FALSE),
                 HOLD |-> above[i]])]

\* _signals(df) of trade_signals.
_signals_trade(df_grp) ==
    LET above == df_above(df_grp)
    IN  [i \in 1..Len(df_grp) |->
            Row(df_grp[i].ticker, df_grp[i].date,
                [BUY |-> above[i] /\ ~shift_1(above, i, TRUE),
                 SELL |-> ~above[i] /\ shift_1(above, i, FALSE),
                 HOLD |-> above[i]])]

----------------------------------------------------------------------------
(* simfin/utils.py: apply.  The argument func is a closure: the model      *)
(* passes it as a record of its name and the variables it closes over, and *)
(* CallFunc calls it.                                                      *)

\* func(df_grp)
CallFunc(func, df_grp) ==
    AsSeq(CASE func.name = "_rel_change" ->
                 _rel_change(df_grp, func.periods, func.future)
            [] func.name = "_mean_log_change" ->
                 _mean_log_change(df_grp, func.future, func.min_periods,
                                  func.max_periods, func.exponent)
            [] func.name = "_resample" ->
                 _resample(df_grp, func.rule, func.method)
            [] func.name = "fill_func" -> fill_func(func.method, df_grp)
            [] func.name = "avg_ttm_2y" -> avg_ttm_2y(df_grp)
            [] func.name = "_signals" -> _signals(df_grp, func.signal)
            [] func.name = "_signals_trade" -> _signals_trade(df_grp))

\* df.groupby(group_index): the rows of one group, in their order in df.
GroupRows(d, t) == SelectSeq(d.rows, LAMBDA r : r.ticker = t)

\* The group keys, sorted.
GroupKeys(d) ==
    SelectSeq(TICKERS, LAMBDA t : \E i \in 1..Len(d.rows) : d.rows[i].ticker = t)

\* df_grp.reset_index(group_index, drop=True): the ticker leaves the index.
reset_index(g) == AsSeq([i \in 1..Len(g) |-> Row("", g[i].date, g[i].val)])

\* _apply_group(df_grp)
_apply_group(g, func) == CallFunc(func, reset_index(g))

\* The result of one group, under its group key in the glued result.
Keyed(k, g) == AsSeq([i \in 1..Len(g) |-> Row(k, g[i].date, g[i].val)])

\* df.groupby(group_index).apply(_apply_group)
GroupByApply(d, func) ==
    Concat([k \in 1..Len(GroupKeys(d)) |->
              Keyed(GroupKeys(d)[k],
                    _apply_group(GroupRows(d, GroupKeys(d)[k]), func))])

\* The function called on all the rows at once, whatever the index.
apply_without_groupby(d, func) == Frame(d.kind, CallFunc(func, d.rows))

\* apply(df, func, group_index)
apply(d, func) ==
    IF d.kind = "DatetimeIndex"
    THEN Frame(d.kind, CallFunc(func, d.rows))
    ELSE Frame(d.kind, GroupByApply(d, func))

\* trade_signals(df, signal1, signal2): d holds the two signals side by
\* side.
trade_signals(d) ==
    [err |-> "none", df |-> apply(d, [name |-> "_signals_trade"])]

----------------------------------------------------------------------------
(* simfin/rel_change.py: the functions rel_change and mean_log_change.     *)

\* The keyword arguments bdays .. years of a call, as a duration.
DurOf(a) ==
    [bdays |-> 0, days |-> 0, weeks |-> 0, months |-> 0,
     quarters |-> a.quarters, years |-> 0]

Raised(e) == [err |-> e, periods |-> 0, shifted_years |-> <<0, 1>>, df |-> Frame("none", <<>>)]

\* The relative change from the ratio of the shifted frames: annualized
\* with the power 1 / shifted_years, then minus 1.
_rel_change_result(df_result, annualized, shifted_years) ==
    Frame(df_result.kind,
          [i \in 1..Len(df_result.rows) |->
              Row(df_result.rows[i].ticker, df_result.rows[i].date,
                  IF annualized
                  THEN VPowSub1(df_result.rows[i].val, RInv(shifted_years))
                  ELSE VSub(df_result.rows[i].val, One))])

\* rel_change once the periods c are known.
_rel_change_with(d, a, c) ==
    IF c.err # "none" THEN Raised(c.err)
    \* 1.0 / shifted_years divides Python floats.
    ELSE IF a.annualized /\ c.shifted_years[1] = 0
    THEN Raised("ZeroDivisionError")
    ELSE [err |-> "none", periods |-> c.periods,
          shifted_years |-> c.shifted_years,
          df |-> _rel_change_result(
                     apply(d, [name |-> "_rel_change", periods |-> c.periods,
                               future |-> a.future]),
                     a.annualized, c.shifted_years)]

\* rel_change(df, freq, ..., future, annualized), the arguments in a.
rel_change(d, a) == _rel_change_with(d, a, convert_to_periods(a.freq, DurOf(a)))

MinDurOf(a) ==
    [bdays |-> 0, days |-> 0, weeks |-> 0, months |-> 0,
     quarters |-> a.min_quarters, years |-> 0]
MaxDurOf(a) ==
    [bdays |-> 0, days |-> 0, weeks |-> 0, months |-> 0,
     quarters |-> a.max_quarters, years |-> 0]

\* What a call of mean_log_change did: the exception raised, or the local
\* variables min_periods and max_periods and the result.
MlcRaised(e) ==
    [err |-> e, min_periods |-> 0, max_periods |-> 0, df |-> Frame("none", <<>>)]

\* df_log = np.log(df)
np_log(d) ==
    Frame(d.kind,
          [i \in 1..Len(d.rows) |->
              Row(d.rows[i].ticker, d.rows[i].date, Log(d.rows[i].val))])

\* The assertion passes when the two step counts are equal, too.
_assert_periods_not_strict(min_periods, max_periods) == min_periods <= max_periods

\* assert min_periods < max_periods
_assert_periods(min_periods, max_periods) == min_periods < max_periods

\* mean_log_change(df, freq, future, min_quarters, max_quarters, annualized)
mean_log_change(d, a) ==
    LET cmin == convert_to_periods(a.freq, MinDurOf(a))
        cmax == convert_to_periods(a.freq, MaxDurOf(a))
        e == exponent(a.annualized, a.future, cmin, cmax)
        df_log == np_log(d)
    IN  IF cmin.err # "none" THEN MlcRaised(cmin.err)
        ELSE IF cmax.err # "none" THEN MlcRaised(cmax.err)
        ELSE IF ~_assert_periods(cmin.periods, cmax.periods)
        THEN MlcRaised("AssertionError")
        ELSE [err |-> "none", min_periods |-> cmin.periods,
              max_periods |-> cmax.periods,
              df |-> apply(df_log, [name |-> "_mean_log_change",
                                    future |-> a.future,
                                    min_periods |-> cmin.periods,
                                    max_periods |-> cmax.periods,
                                    exponent |-> e])]

----------------------------------------------------------------------------
(* simfin/resample.py: resample, index_union and reindex.                  *)

\* A call that raised: the error and no frame.
NoResult(e) == [err |-> e, df |-> Frame("none", <<>>)]

\* resample(df, rule, method), the arguments in the record a.
resample(d, a) ==
    LET c == _convert_method_arg(a.method)
    IN  IF c.err # "none" THEN NoResult(c.err)
        ELSE [err |-> "none",
              df |-> apply(d, [name |-> "_resample", rule |-> a.rule,
                               method |-> c.func])]

\* The index of a frame: the keys of its rows, in order.
IndexOf(d) ==
    AsSeq([i \in 1..Len(d.rows) |-> <<d.rows[i].ticker, d.rows[i].date>>])

\* The keys of a set, sorted: by ticker, then by date.
SortKeys(S) ==
    IF S = {} THEN <<>>
    ELSE LET dates == {k[2] : k \in S}
             lo == MinOf(dates)
             span == [i \in 1..(MaxOf(dates) - lo + 1) |-> lo + i - 1]
             KeysOf(t) ==
                 LET ds == SelectSeq(span, LAMBDA d : <<t, d>> \in S)
                 IN  [i \in 1..Len(ds) |-> <<t, ds[i]>>]
         IN  KeysOf("") \o KeysOf("A") \o KeysOf("B")

\* The keys of an index, as a set.
KeySet(idx) == {idx[i] : i \in 1..Len(idx)}

\* The index of df_target alone.
index_union_target_only(df_src, df_target) == IndexOf(df_target)

\* index_union(df_src, df_target): df_src.index.union(df_target.index).
index_union(df_src, df_target) ==
    SortKeys(KeySet(IndexOf(df_src)) \cup KeySet(IndexOf(df_target)))

\* The rows looked up by their dates alone, whatever the ticker.
pd_reindex_dates_only(d, idx) ==
    Frame(d.kind,
          [i \in 1..Len(idx) |->
              LET P == {j \in 1..Len(d.rows) : d.rows[j].date = idx[i][2]}
              IN  Row(idx[i][1], idx[i][2],
                      IF P = {} THEN NaN ELSE d.rows[MinOf(P)].val)])

\* The row of each key of idx or, where df has none, the row of the same
\* ticker before it.
pd_reindex_padded(d, idx) ==
    Frame(d.kind,
          [i \in 1..Len(idx) |->
              LET P == {j \in 1..Len(d.rows) :
                          /\ d.rows[j].ticker = idx[i][1]
                          /\ d.rows[j].date <= idx[i][2]}
              IN  Row(idx[i][1], idx[i][2],
                      IF P = {} THEN NaN ELSE d.rows[MaxOf(P)].val)])

\* df.reindex(index=idx): the row of each key of idx, NaN where df has none.
pd_reindex(d, idx) ==
    Frame(d.kind,
          [i \in 1..Len(idx) |->
              LET P == {j \in 1..Len(d.rows) :
                          <<d.rows[j].ticker, d.rows[j].date>> = idx[i]}
              IN  Row(idx[i][1], idx[i][2],
                      IF P = {} THEN NaN ELSE d.rows[MinOf(P)].val)])

\* No additional reindex: the rows of the union are kept.
_reindex_result_of_union(df_result, a) == df_result

\* The additional reindex that keeps only the rows of df_target.
_reindex_result(df_result, a) ==
    IF a.union /\ a.only_target_index
    THEN pd_reindex(df_result, IndexOf(a.df_target))
    ELSE df_result

\* reindex with the method converted before the types of the indices are
\* compared.
reindex_method_first(df_src, a) ==
    IF _convert_method_arg(a.method).err # "none"
    THEN NoResult(_convert_method_arg(a.method).err)
    ELSE IF df_src.kind # a.df_target.kind THEN NoResult("AssertionError")
    ELSE [err |-> "none",
          df |-> _reindex_result(
                     apply(pd_reindex(df_src,
                                      IF a.union
                                      THEN index_union(df_src, a.df_target)
                                      ELSE IndexOf(a.df_target)),
                           [name |-> "fill_func", method |-> a.method]),
                     a)]

\* reindex(df_src, df_target, union, only_target_index, method), the
\* arguments after df_src in the record a.
reindex(df_src, a) ==
    LET c == _convert_method_arg(a.method)
    IN  IF df_src.kind # a.df_target.kind THEN NoResult("AssertionError")
        ELSE IF c.err # "none" THEN NoResult(c.err)
        ELSE [err |-> "none",
              df |-> _reindex_result(
                         apply(pd_reindex(df_src,
                                          IF a.union
                                          THEN index_union(df_src, a.df_target)
                                          ELSE IndexOf(a.df_target)),
                               [name |-> "fill_func", method |-> c.func]),
                         a)]

----------------------------------------------------------------------------
(* Frames with several columns.  A DataFrame is a function from the names  *)
(* of its columns to frames of one column each, all with the same index;   *)
(* pandas shifts, divides, fills and reindexes a DataFrame column by       *)
(* column.                                                                 *)

\* The index of a DataFrame.
DFIndex(D) == IndexOf(D[CHOOSE c \in DOMAIN D : TRUE])

\* df[columns]
Select(D, columns) == [c \in columns |-> D[c]]

\* Index.union with sort=False: the keys of idx, then the new keys of more.
AppendNew(idx, more) ==
    idx \o SelectSeq(more, LAMBDA k : k \notin KeySet(idx))

\* The union of the indices of the frames Ds, sorted or in order of
\* appearance: the version of pandas decides which.
RECURSIVE UnionInOrder(_)
UnionInOrder(Ds) ==
    IF Ds = <<>> THEN <<>>
    ELSE IF Len(Ds) = 1 THEN DFIndex(Ds[1])
    ELSE AppendNew(UnionInOrder(SubSeq(Ds, 1, Len(Ds) - 1)), DFIndex(Ds[Len(Ds)]))

\* pd.concat(Ds, axis=1): the columns of all the frames, on the union of
\* their indices.
concat(Ds, sorted) ==
    LET idx == IF sorted THEN SortKeys(KeySet(UnionInOrder(Ds)))
               ELSE UnionInOrder(Ds)
        cols == UNION {DOMAIN Ds[k] : k \in 1..Len(Ds)}
        Of(c) == Ds[CHOOSE k \in 1..Len(Ds) : c \in DOMAIN Ds[k]][c]
    IN  [c \in cols |-> pd_reindex(Of(c), idx)]

\* The rows of two columns side by side: the value of a row is the pair.
Zip(x, y) ==
    Frame(x.kind, [i \in 1..Len(x.rows) |->
                      Row(x.rows[i].ticker, x.rows[i].date,
                          <<x.rows[i].val, y.rows[i].val>>)])

\* x.fillna(y), y a number or a frame with the index of x.
fillna0(x) ==
    Frame(x.kind, [i \in 1..Len(x.rows) |->
                      Row(x.rows[i].ticker, x.rows[i].date,
                          IF IsNaN(x.rows[i].val) THEN Zero ELSE x.rows[i].val)])
fillna(x, y) ==
    Frame(x.kind, [i \in 1..Len(x.rows) |->
                      Row(x.rows[i].ticker, x.rows[i].date,
                          IF IsNaN(x.rows[i].val) THEN y.rows[i].val
                          ELSE x.rows[i].val)])

\* x + y, x * y and x / y on two frames with the same index.
FrameAdd(x, y) ==
    Frame(x.kind, [i \in 1..Len(x.rows) |->
                      Row(x.rows[i].ticker, x.rows[i].date,
                          VAdd(x.rows[i].val, y.rows[i].val))])
FrameMul(x, y) ==
    Frame(x.kind, [i \in 1..Len(x.rows) |->
                      Row(x.rows[i].ticker, x.rows[i].date,
                          VMul(x.rows[i].val, y.rows[i].val))])
FrameDiv(x, y) == Frame(x.kind, SeriesDiv(x.rows, y.rows))

\* x - y on two frames with the same index, and x * c for a number c.
FrameSub(x, y) ==
    Frame(x.kind, [i \in 1..Len(x.rows) |->
                      Row(x.rows[i].ticker, x.rows[i].date,
                          VSub(x.rows[i].val, y.rows[i].val))])
FrameScale(x, c) ==
    Frame(x.kind, [i \in 1..Len(x.rows) |->
                      Row(x.rows[i].ticker, x.rows[i].date,
                          VMul(x.rows[i].val, c))])

----------------------------------------------------------------------------
(* simfin/derived.py and simfin/signals.py.  The signal functions are      *)
(* modelled on some of their columns: growth_signals on REVENUE and FCF,   *)
(* fin_signals on NET_PROFIT_MARGIN and PAYOUT_RATIO, val_signals on       *)
(* PSALES, PFCF and MARKET_CAP.  The other columns take the same steps.    *)
(* The arguments are the record a: the datasets, df_prices, func ("none"   *)
(* for None), offset in days (NoOffset for None), and sorted, which says   *)
(* how pd.concat orders the union of two indices.                          *)

NoOffset == -1

\* free_cash_flow(df_cashflow)
free_cash_flow_capex_not_filled(df_cashflow) ==
    FrameAdd(fillna0(df_cashflow["NET_CASH_OPS"]), df_cashflow["CAPEX"])
free_cash_flow(df_cashflow) ==
    FrameAdd(fillna0(df_cashflow["NET_CASH_OPS"]), fillna0(df_cashflow["CAPEX"]))

\* ncav(df_balance)
ncav(df_balance) ==
    FrameSub(df_balance["TOTAL_CUR_ASSETS"], df_balance["TOTAL_LIABILITIES"])

\* netnet(df_balance)
netnet(df_balance) ==
    FrameSub(FrameAdd(FrameAdd(fillna0(df_balance["CASH_EQUIV_ST_INVEST"]),
                               FrameScale(fillna0(df_balance["ACC_NOTES_RECV"]),
                                          Rat(3, 4))),
                      FrameScale(fillna0(df_balance["INVENTORIES"]), Rat(1, 2))),
             df_balance["TOTAL_LIABILITIES"])

\* shares(df, index)
shares_without_other(D, index) == D[index]
shares(D, index) ==
    LET index_other == IF index = "SHARES_DILUTED" THEN "SHARES_BASIC"
                       ELSE "SHARES_DILUTED"
    IN  fillna(D[index], D[index_other])

\* The offset subtracted from the dates.
add_date_offset_earlier(D, offset) ==
    [c \in DOMAIN D |->
        Frame(D[c].kind,
              [i \in 1..Len(D[c].rows) |->
                  Row(D[c].rows[i].ticker, D[c].rows[i].date - offset,
                      D[c].rows[i].val)])]

\* add_date_offset(df, offset)
add_date_offset(D, offset) ==
    [c \in DOMAIN D |->
        Frame(D[c].kind,
              [i \in 1..Len(D[c].rows) |->
                  Row(D[c].rows[i].ticker, D[c].rows[i].date + offset,
                      D[c].rows[i].val)])]

\* apply(df, func) and reindex(df_src, df_target, method) with the defaults
\* union=True and only_target_index=True, on every column of a DataFrame.
ApplyColumns(D, func) == [c \in DOMAIN D |-> apply(D[c], [name |-> func])]
ReindexFrame(x, df_target, method) ==
    reindex(x, [df_target |-> df_target, union |-> TRUE,
                only_target_index |-> TRUE, method |-> method]).df
ReindexColumns(D, df_target, method) ==
    [c \in DOMAIN D |-> ReindexFrame(D[c], df_target, method)]

\* rel_change(df, freq='q', quarters=q, future=False, annualized=False) on
\* one column.
Growth(x, q) ==
    rel_change(x, [freq |-> "q", quarters |-> q, future |-> FALSE,
                   annualized |-> FALSE]).df

\* The steps that end fin_signals and growth_signals: func, then reindex
\* if df_prices is given.
PostProcess(D, a) ==
    LET processed == IF a.func # "none" THEN ApplyColumns(D, a.func) ELSE D
    IN  IF a.has_prices
        THEN ReindexColumns(processed, a.df_prices["CLOSE"], a.fill_method)
        ELSE processed

\* The offset of the index-dates, if one is given.
Lagged(D, a) ==
    IF a.offset # NoOffset THEN add_date_offset(D, a.offset) ELSE D

\* growth_signals(...)
growth_signals(a) ==
    LET df_ttm == concat(<<Select(a.df_income_ttm, {"REVENUE"}),
                           [FCF |-> free_cash_flow(a.df_cashflow_ttm)]>>,
                         a.sorted)
        df_qrt == concat(<<Select(a.df_income_qrt, {"REVENUE"}),
                           [FCF |-> free_cash_flow(a.df_cashflow_qrt)]>>,
                         a.sorted)
        \* The three calls of rel_change: the data, the quarters and the
        \* new names of the columns.
        calls == <<[df |-> df_ttm, quarters |-> 4,
                    new_names |-> [SALES_GROWTH |-> "REVENUE",
                                   FCF_GROWTH |-> "FCF"]],
                   [df |-> df_qrt, quarters |-> 4,
                    new_names |-> [SALES_GROWTH_YOY |-> "REVENUE",
                                   FCF_GROWTH_YOY |-> "FCF"]],
                   [df |-> df_qrt, quarters |-> 1,
                    new_names |-> [SALES_GROWTH_QOQ |-> "REVENUE",
                                   FCF_GROWTH_QOQ |-> "FCF"]]>>
        df_growth == [k \in 1..3 |->
                        [n \in DOMAIN calls[k].new_names |->
                            Growth(calls[k].df[calls[k].new_names[n]],
                                   calls[k].quarters)]]
    IN  PostProcess(Lagged(concat(df_growth, a.sorted), a), a)

\* apply(df, func=_signals): the signals of the columns of df.
apply_signals(D) ==
    [NET_PROFIT_MARGIN |->
        apply(Zip(D["NET_INCOME"], D["REVENUE"]),
              [name |-> "_signals", signal |-> "NET_PROFIT_MARGIN"]),
     PAYOUT_RATIO |->
        apply(Zip(D["DIVIDENDS_PAID"], D["FCF"]),
              [name |-> "_signals", signal |-> "PAYOUT_RATIO"])]

\* fin_signals(...)
fin_signals(a) ==
    PostProcess(
        apply_signals(
            Lagged(concat(<<Select(a.df_income_ttm, {"REVENUE", "NET_INCOME"}),
                            Select(a.df_cashflow_ttm, {"DIVIDENDS_PAID"}),
                            [FCF |-> free_cash_flow(a.df_cashflow_ttm)]>>,
                          a.sorted), a)), a)

\* x / y where pandas aligns the two indices: row by row if they are the
\* same, else on their sorted union.
DivAligned(x, y) ==
    IF IndexOf(x) = IndexOf(y) THEN FrameDiv(x, y)
    ELSE LET idx == SortKeys(KeySet(IndexOf(x)) \cup KeySet(IndexOf(y)))
         IN  FrameDiv(pd_reindex(x, idx), pd_reindex(y, idx))

\* val_signals(...)
val_signals(a) ==
    LET df_inc == Select(a.df_income_ttm,
                         {"REVENUE", "SHARES_BASIC", "SHARES_DILUTED"})
        df_cf == Select(a.df_cashflow_ttm, {"DIVIDENDS_PAID"})
        df0 == concat(<<df_inc, df_cf>>, a.sorted)
        df1 == [c \in DOMAIN df0 \cup {"FCF"} |->
                   IF c = "FCF"
                   THEN pd_reindex(free_cash_flow(a.df_cashflow_ttm),
                                   DFIndex(df0))
                   ELSE df0[c]]
        df2 == Lagged(df1, a)
        df_prices == a.df_prices["CLOSE"]
        df_shares == shares(df2, a.shares_index)
        df_shares_daily == ReindexFrame(df_shares, df_prices, a.fill_method)
        df3 == IF a.func # "none" THEN ApplyColumns(df2, a.func) ELSE df2
        df_per_share == [c \in DOMAIN df3 |-> DivAligned(df3[c], df_shares)]
        df_daily == ReindexColumns(df_per_share, df_prices, a.fill_method)
    IN  [PSALES |-> FrameDiv(df_prices, df_daily["REVENUE"]),
         PFCF |-> FrameDiv(df_prices, df_daily["FCF"]),
         FCF_YIELD |-> FrameDiv(df_daily["FCF"], df_prices),
         MARKET_CAP |-> FrameMul(df_shares_daily, df_prices)]

----------------------------------------------------------------------------
(* The frames of the model.                                                *)

NoFrame == Frame("none", <<>>)
NoCall == [op |-> "none"]
NoOut == Raised("none")
\* The call has not returned yet.
Pending == Raised("pending")

\* The sequences over S of length at most n.
SeqsUpTo(S, n) == UNION {[1..k -> S] : k \in 0..n}

\* One stock's series: one row per period, the dates 1, 2, ...
SeriesOf(t, vs) == [i \in 1..Len(vs) |-> Row(t, i, vs[i])]

\* The data: rel_change gets NaN and positive numbers, mean_log_change
\* positive numbers (it takes their logarithm).
ValsA == {NaN, <<2, 1>>, <<3, 1>>}
ValsB == {NaN, <<5, 1>>}

\* A MultiIndex frame with the tickers A and B (either may have no rows),
\* sorted, or a DatetimeIndex frame with one series.
Frames ==
    {Frame("MultiIndex", SeriesOf("A", a) \o SeriesOf("B", b)) :
        a \in SeqsUpTo(ValsA, MaxLen), b \in SeqsUpTo(ValsB, MaxLenB)}
    \cup {Frame("DatetimeIndex", SeriesOf("", a)) : a \in SeqsUpTo(ValsA, MaxLen)}

PosA == {<<2, 1>>, <<3, 1>>}
PosB == {<<5, 1>>}

PositiveFrames ==
    {Frame("MultiIndex", SeriesOf("A", a) \o SeriesOf("B", b)) :
        a \in SeqsUpTo(PosA, MaxLenM), b \in SeqsUpTo(PosB, MaxLenB)}
    \cup {Frame("DatetimeIndex", SeriesOf("", a)) : a \in SeqsUpTo(PosA, MaxLenM)}

----------------------------------------------------------------------------
(* The period converter as a state machine: a call with any frequency and  *)
(* duration, then calls with one more of one unit.                         *)

Freqs == {"bdays", "b", "days", "d", "weeks", "w", "months", "m",
          "quarters", "q", "ttm", "years", "y", "annual", "a",
          "Q", "BDays", "TTM", "Daily", "daily", "x", ""}

Durations ==
    [bdays : 0..MaxBdays, days : 0..MaxDays, weeks : 0..MaxWeeks,
     months : 0..MaxMonths, quarters : 0..MaxQuarters, years : 0..MaxYears]

InitPeriods ==
    /\ freq \in Freqs
    /\ dur \in Durations
    /\ conv = convert_to_periods(freq, dur)
    /\ df = NoFrame
    /\ call = NoCall
    /\ out = NoOut
    /\ mem = <<>>
    /\ disk = <<>>
    /\ now = 0

\* The same call with one more of unit u.
Longer(u) ==
    /\ [dur EXCEPT ![u] = @ + 1] \in Durations
    /\ dur' = [dur EXCEPT ![u] = @ + 1]
    /\ freq' = freq
    /\ conv' = convert_to_periods(freq', dur')
    /\ UNCHANGED <<df, call, out, mem, disk, now>>

NextPeriods ==
    \E u \in {"bdays", "days", "weeks", "months", "quarters", "years"} :
        Longer(u)

SpecPeriods == InitPeriods /\ [][NextPeriods]_vars

----------------------------------------------------------------------------
(* The change calculators as a state machine: the arguments of a call of   *)
(* convert_to_periods, rel_change or mean_log_change, then the call.       *)

ChangeFreqs == {"q", "y", "x"}

ConvCalls ==
    [op : {"convert_to_periods"}, freq : Freqs, quarters : 0..MaxShift]

RelCalls ==
    [op : {"rel_change"}, freq : ChangeFreqs, quarters : 0..MaxShift,
     future : BOOLEAN, annualized : BOOLEAN]

MlcCalls ==
    [op : {"mean_log_change"}, freq : ChangeFreqs,
     min_quarters : 0..MaxWin, max_quarters : 0..MaxWin,
     future : BOOLEAN, annualized : BOOLEAN]

InitChange ==
    /\ freq = "q"
    /\ dur = [bdays |-> 0, days |-> 0, weeks |-> 0, months |-> 0,
              quarters |-> 0, years |-> 0]
    /\ conv = convert_to_periods(freq, dur)
    /\ \/ df = NoFrame /\ call \in ConvCalls
       \/ df \in Frames /\ call \in RelCalls
       \/ df \in PositiveFrames /\ call \in MlcCalls
    /\ out = Pending
    /\ mem = <<>>
    /\ disk = <<>>
    /\ now = 0

ConvertToPeriods ==
    /\ call.op = "convert_to_periods"
    /\ out = Pending
    /\ out' = LET c == convert_to_periods(call.freq, DurOf(call))
               IN  [err |-> c.err, periods |-> c.periods,
                    shifted_years |-> c.shifted_years, df |-> NoFrame]
    /\ UNCHANGED <<freq, dur, conv, df, call, mem, disk, now>>

RelChange ==
    /\ call.op = "rel_change"
    /\ out = Pending
    /\ out' = rel_change(df, call)
    /\ UNCHANGED <<freq, dur, conv, df, call, mem, disk, now>>

MeanLogChange ==
    /\ call.op = "mean_log_change"
    /\ out = Pending
    /\ out' = mean_log_change(df, call)
    /\ UNCHANGED <<freq, dur, conv, df, call, mem, disk, now>>

NextChange == ConvertToPeriods \/ RelChange \/ MeanLogChange

SpecChange == InitChange /\ [][NextChange]_vars

----------------------------------------------------------------------------
(* The operations on a panel of two stocks as a state machine: a panel     *)
(* with rows of both stocks and the arguments of a call of rel_change,     *)
(* mean_log_change, resample or reindex, then the call.                    *)

\* No row at a date.
Absent == <<0, -1>>

\* The rows of one stock from a choice, for each date, of a value or no row.
RowsOf(t, f, n) ==
    LET all == [i \in 1..n |-> Row(t, i, f[i])]
    IN  SelectSeq(all, LAMBDA r : r.val # Absent)

\* The series of stock A: dates among 1..MaxDate, in order.
PanelSeriesA ==
    {RowsOf("A", f, MaxDate) : f \in [1..MaxDate -> ValsA \cup {Absent}]}
        \ {<<>>}

\* The series of stock B: one or two rows.
PanelSeriesB ==
    {<<Row("B", 1, <<5, 1>>)>>, <<Row("B", 1, NaN)>>, <<Row("B", 2, <<5, 1>>)>>,
     <<Row("B", 1, <<5, 1>>), Row("B", 2, NaN)>>}

Panels == {Frame("MultiIndex", a \o b) : a \in PanelSeriesA, b \in PanelSeriesB}

\* The target of reindex: only its index counts.
GridOf(t, S) == RowsOf(t, [i \in 1..MaxDate |-> IF i \in S THEN One ELSE Absent], MaxDate)

Targets ==
    {Frame("MultiIndex", GridOf("A", 1..MaxDate) \o GridOf("B", {1, 2})),
     Frame("MultiIndex", GridOf("A", {MaxDate}) \o GridOf("B", {1})),
     Frame("MultiIndex", GridOf("A", {2}) \o GridOf("B", {2})),
     Frame("MultiIndex", GridOf("A", {1, MaxDate}))}

PanelCalls ==
    [op : {"rel_change"}, freq : {"q"}, quarters : {1, 2},
     future : BOOLEAN, annualized : BOOLEAN]
    \cup [op : {"mean_log_change"}, freq : {"q"}, min_quarters : {0, 1},
          max_quarters : {2}, future : BOOLEAN, annualized : BOOLEAN]
    \cup [op : {"resample"}, rule : {1, 2},
          method : {"ffill", "bfill", "linear", "mean"}]
    \cup [op : {"reindex"}, df_target : Targets, union : BOOLEAN,
          only_target_index : BOOLEAN, method : {"ffill", "bfill", "linear"}]

InitPanel ==
    /\ freq = "q"
    /\ dur = [bdays |-> 0, days |-> 0, weeks |-> 0, months |-> 0,
              quarters |-> 0, years |-> 0]
    /\ conv = convert_to_periods(freq, dur)
    /\ df \in Panels
    /\ call \in PanelCalls
    /\ out = Pending
    /\ mem = <<>>
    /\ disk = <<>>
    /\ now = 0

Resample ==
    /\ call.op = "resample"
    /\ out = Pending
    /\ out' = resample(df, call)
    /\ UNCHANGED <<freq, dur, conv, df, call, mem, disk, now>>

Reindex ==
    /\ call.op = "reindex"
    /\ out = Pending
    /\ out' = reindex(df, call)
    /\ UNCHANGED <<freq, dur, conv, df, call, mem, disk, now>>

NextPanel == RelChange \/ MeanLogChange \/ Resample \/ Reindex

SpecPanel == InitPanel /\ [][NextPanel]_vars

----------------------------------------------------------------------------
(* The arguments of resample and reindex as a state machine: a frame with  *)
(* a DatetimeIndex or a MultiIndex, a target of either kind and a method   *)
(* that is a keyword or not, then the call.                                *)

\* The series of one entity on the dates 1 and 2.
ArgSeries(t) ==
    {RowsOf(t, f, 2) : f \in [1..2 -> {NaN, <<2, 1>>, Absent}]} \ {<<>>}

ArgFrames ==
    {Frame("DatetimeIndex", a) : a \in ArgSeries("")}
    \cup {Frame("MultiIndex", a \o b) :
              a \in ArgSeries("A"), b \in {<<>>, <<Row("B", 1, <<5, 1>>)>>}}

ArgTargets ==
    {Frame("DatetimeIndex", GridOf("", {1, 2})),
     Frame("DatetimeIndex", GridOf("", {2})),
     Frame("MultiIndex", GridOf("A", {1, 2}) \o GridOf("B", {1})),
     Frame("MultiIndex", GridOf("A", {2}))}

\* The keywords whose fill the model has, and values of the argument method
\* that are no keyword: "none" is None, the default of reindex.
FillKeywords == {"ffill", "bfill", "linear"}
NoKeywords == {"none", "nearest", "FFILL", ""}

ArgCalls ==
    [op : {"reindex"}, df_target : ArgTargets, union : BOOLEAN,
     only_target_index : BOOLEAN, method : FillKeywords \cup NoKeywords]
    \cup [op : {"resample"}, rule : {1, 2},
          method : FillKeywords \cup {"mean"} \cup NoKeywords]

InitArgs ==
    /\ freq = "q"
    /\ dur = [bdays |-> 0, days |-> 0, weeks |-> 0, months |-> 0,
              quarters |-> 0, years |-> 0]
    /\ conv = convert_to_periods(freq, dur)
    /\ df \in ArgFrames
    /\ call \in ArgCalls
    /\ out = Pending
    /\ mem = <<>>
    /\ disk = <<>>
    /\ now = 0

NextArgs == Resample \/ Reindex

SpecArgs == InitArgs /\ [][NextArgs]_vars

----------------------------------------------------------------------------
(* The signal functions as a state machine: the datasets of two stocks and *)
(* the other arguments of a call of growth_signals, fin_signals or         *)
(* val_signals, then the call.  Stock A has MaxReports reports, at the     *)
(* dates 1..MaxReports, stock B one or two.                                *)

\* A column of one stock: the value V[d] at each date d of the sequence.
ColumnOf(t, dates, V) == [i \in 1..Len(dates) |-> Row(t, dates[i], V[dates[i]])]

\* The days of the model.
Days == 1..(MaxReports + 2)

\* The dates 1..n, without those of the set S.
DatesTo(n, S) == SelectSeq([i \in 1..n |-> i], LAMBDA d : d \notin S)

\* A column of the two stocks.
TwoStocks(rowsA, rowsB) == Frame("MultiIndex", rowsA \o rowsB)

\* The Income Statements: REVENUE of A is the sequence r.
IncomeOf(r, nB) ==
    LET dA == DatesTo(MaxReports, {})
        dB == DatesTo(nB, {})
    IN  [REVENUE |->
            TwoStocks(ColumnOf("A", dA, [d \in Days |-> r[d]]),
                      ColumnOf("B", dB, [d \in Days |-> <<5, 1>>])),
         NET_INCOME |->
            TwoStocks(ColumnOf("A", dA, [d \in Days |-> <<1, 1>>]),
                      ColumnOf("B", dB, [d \in Days |-> <<7, 1>>])),
         SHARES_BASIC |->
            TwoStocks(ColumnOf("A", dA, [d \in Days |-> <<4, 1>>]),
                      ColumnOf("B", dB, [d \in Days |-> NaN])),
         SHARES_DILUTED |->
            TwoStocks(ColumnOf("A", dA, [d \in Days |-> IF d = 2 THEN NaN ELSE <<2, 1>>]),
                      ColumnOf("B", dB, [d \in Days |-> <<5, 1>>]))]

\* The Cash-Flow Statements: with a gap, A has no report at date 2.
CashflowOf(gap, nB) ==
    LET dA == DatesTo(MaxReports, IF gap THEN {2} ELSE {})
        dB == DatesTo(nB, {})
    IN  [NET_CASH_OPS |->
            TwoStocks(ColumnOf("A", dA, [d \in Days |-> <<3, 1>>]),
                      ColumnOf("B", dB, [d \in Days |-> <<5, 1>>])),
         CAPEX |->
            TwoStocks(ColumnOf("A", dA, [d \in Days |-> IF d % 2 = 1 THEN NaN ELSE <<-1, 1>>]),
                      ColumnOf("B", dB, [d \in Days |-> NaN])),
         DIVIDENDS_PAID |->
            TwoStocks(ColumnOf("A", dA, [d \in Days |-> IF d = 1 THEN NaN ELSE <<-1, 1>>]),
                      ColumnOf("B", dB, [d \in Days |-> <<-2, 1>>]))]

\* The share-prices: on every day, on the latest day only, or on some days
\* of A only.
PricesOf(grid) ==
    LET dA == CASE grid = "daily" -> DatesTo(MaxReports + 2, {})
                [] grid = "latest" -> <<MaxReports>>
                [] grid = "some" -> <<2, 4>>
        dB == CASE grid = "daily" -> <<1, 2, 3>>
                [] grid = "latest" -> <<2>>
                [] grid = "some" -> <<>>
    IN  [CLOSE |-> TwoStocks(ColumnOf("A", dA, [d \in Days |-> <<7, 1>>]),
                             ColumnOf("B", dB, [d \in Days |-> <<11, 1>>]))]

\* REVENUE of A: 2 at every date but k, and 3 at date k.
RevenueOf(k) == [d \in 1..MaxReports |-> IF d = k THEN <<3, 1>> ELSE <<2, 1>>]

\* The calls of the signal function o, with df_prices given or not and
\* with the share-counts of shares_index.
CallsOf(o, given, indices) ==
    {[op |-> o,
      df_prices |-> PricesOf(grid),
      df_income_ttm |-> IncomeOf(RevenueOf(k), nB),
      df_income_qrt |-> IncomeOf(Reverse(RevenueOf(k)), nB),
      df_cashflow_ttm |-> CashflowOf(gap, nB),
      df_cashflow_qrt |-> CashflowOf(gap, nB),
      has_prices |-> hp, fill_method |-> "ffill", offset |-> off,
      func |-> f, shares_index |-> si, sorted |-> srt] :
        grid \in {"daily", "latest", "some"},
        k \in 0..MaxReports, nB \in {1, 2}, gap \in BOOLEAN,
        hp \in given, si \in indices,
        off \in {NoOffset, 1}, f \in {"none", "avg_ttm_2y"},
        srt \in BOOLEAN}

\* The arguments of the calls: df_prices is optional for growth_signals and
\* fin_signals, and shares_index is an argument of val_signals only.
SignalCalls ==
    CallsOf("growth_signals", BOOLEAN, {"SHARES_DILUTED"})
    \cup CallsOf("fin_signals", BOOLEAN, {"SHARES_DILUTED"})
    \cup CallsOf("val_signals", {TRUE}, {"SHARES_DILUTED", "SHARES_BASIC"})

InitSignals ==
    /\ freq = "q"
    /\ dur = [bdays |-> 0, days |-> 0, weeks |-> 0, months |-> 0,
              quarters |-> 0, years |-> 0]
    /\ conv = convert_to_periods(freq, dur)
    /\ df = NoFrame
    /\ call \in SignalCalls
    /\ out = Pending
    /\ mem = <<>>
    /\ disk = <<>>
    /\ now = 0

GrowthSignals ==
    /\ call.op = "growth_signals"
    /\ out = Pending
    /\ out' = [err |-> "none", df |-> growth_signals(call)]
    /\ UNCHANGED <<freq, dur, conv, df, call, mem, disk, now>>

FinSignals ==
    /\ call.op = "fin_signals"
    /\ out = Pending
    /\ out' = [err |-> "none", df |-> fin_signals(call)]
    /\ UNCHANGED <<freq, dur, conv, df, call, mem, disk, now>>

ValSignals ==
    /\ call.op = "val_signals"
    /\ out = Pending
    /\ out' = [err |-> "none", df |-> val_signals(call)]
    /\ UNCHANGED <<freq, dur, conv, df, call, mem, disk, now>>

NextSignals == GrowthSignals \/ FinSignals \/ ValSignals

SpecSignals == InitSignals /\ [][NextSignals]_vars

\* The signal functions on the calls that concatenate with sort=True and
\* take the diluted share-counts.
InitSorted ==
    /\ freq = "q"
    /\ dur = [bdays |-> 0, days |-> 0, weeks |-> 0, months |-> 0,
              quarters |-> 0, years |-> 0]
    /\ conv = convert_to_periods(freq, dur)
    /\ df = NoFrame
    /\ call \in {c \in SignalCalls : c.sorted /\ c.shares_index = "SHARES_DILUTED"}
    /\ out = Pending
    /\ mem = <<>>
    /\ disk = <<>>
    /\ now = 0

SpecSorted == InitSorted /\ [][NextSignals]_vars

----------------------------------------------------------------------------
(* The pandas objects in memory.  A call works on objects: a statement     *)
(* either makes a new object or changes one in place, and the variables of *)
(* the function hold references.  An object is a DataFrame or a Series     *)
(* (one column, whose name is the name of the Series, "" for None): the    *)
(* names of its columns in order and the column of each name.              *)

Obj(type, columns, data) == [type |-> type, columns |-> columns, data |-> data]
SeriesObj(name, frame) == Obj("Series", <<name>>, (name :> frame))
SeriesOfObj(o) == o.data[o.columns[1]]

\* The names of the signals in the order of their strings (names.py).
SortedNames ==
    <<"PAYOUT_RATIO", "FCF_GROWTH", "FCF_GROWTH_QOQ", "FCF_GROWTH_YOY",
      "FCF_YIELD", "MARKET_CAP", "NET_PROFIT_MARGIN", "PFCF", "PSALES",
      "SALES_GROWTH", "SALES_GROWTH_QOQ", "SALES_GROWTH_YOY">>

\* The set of the elements of a sequence.
Range(s) == {s[i] : i \in 1..Len(s)}

\* df.sort_index(axis='columns'): the columns in the order of their names.
sort_index_columns(o) ==
    Obj(o.type, SelectSeq(SortedNames, LAMBDA n : n \in Range(o.columns)), o.data)

\* df.rename(columns=new_names), new_names a function from old names to
\* new ones, and Series.rename(name).
rename(o, new_names) ==
    LET NewOf(c) == IF c \in DOMAIN new_names THEN new_names[c] ELSE c
        OldOf(n) == CHOOSE c \in Range(o.columns) : NewOf(c) = n
    IN  Obj(o.type, [i \in 1..Len(o.columns) |-> NewOf(o.columns[i])],
            [n \in {NewOf(c) : c \in Range(o.columns)} |-> o.data[OldOf(n)]])

\* df[name] = series: a new column, or new values of a column, on the
\* index of df.
setitem(o, name, series) ==
    LET frame == IF o.columns = <<>> THEN series
                 ELSE pd_reindex(series, DFIndex(o.data))
    IN  Obj(o.type,
            IF name \in Range(o.columns) THEN o.columns
            ELSE Append(o.columns, name),
            [n \in Range(o.columns) \cup {name} |->
                IF n = name THEN frame ELSE o.data[n]])

\* An object with the same columns and other values.
WithData(o, data) == Obj(o.type, o.columns, data)

\* The object that the expression e of a statement makes, from the objects
\* m in memory that the variables env of the function refer to.
Value(e, env, m) ==
    LET src == m[env[e.src]]
    IN  CASE e.f = "free_cash_flow" ->
                 SeriesObj("", free_cash_flow(src.data))
          [] e.f = "ncav" -> SeriesObj("", ncav(src.data))
          [] e.f = "netnet" -> SeriesObj("", netnet(src.data))
          [] e.f = "shares" -> SeriesObj(e.index, shares(src.data, e.index))
          [] e.f = "rename" -> rename(src, e.new_names)
          [] e.f = "copy" -> src
          [] e.f = "add_offset" ->
                 WithData(src, add_date_offset(src.data, e.offset))
          [] e.f = "getitem" ->
                 Obj("DataFrame", e.columns, Select(src.data, Range(e.columns)))
          [] e.f = "concat" ->
                 Obj("DataFrame",
                     Concat([k \in 1..Len(e.others) |-> m[env[e.others[k]]].columns]),
                     concat([k \in 1..Len(e.others) |-> m[env[e.others[k]]].data],
                            e.sorted))
          [] e.f = "setitem" ->
                 setitem(src, e.name, SeriesOfObj(m[env[e.value]]))
          [] e.f = "apply" ->
                 WithData(src, [c \in DOMAIN src.data |-> apply(src.data[c], e.func)])
          [] e.f = "apply_signals" ->
                 Obj("DataFrame", <<"NET_PROFIT_MARGIN", "PAYOUT_RATIO">>,
                     apply_signals(src.data))
          [] e.f = "rel_change_result" ->
                 WithData(src, [c \in DOMAIN src.data |->
                                   _rel_change_result(src.data[c], e.annualized,
                                                      e.shifted_years)])
          [] e.f = "log" ->
                 WithData(src, [c \in DOMAIN src.data |-> np_log(src.data[c])])
          [] e.f = "reindex" ->
                 WithData(src, [c \in DOMAIN src.data |->
                                   pd_reindex(src.data[c],
                                              IF e.union
                                              THEN index_union(src.data[c],
                                                               SeriesOfObj(m[env[e.target]]))
                                              ELSE DFIndex(m[env[e.target]].data))])
          [] e.f = "div" ->
                 WithData(src, [c \in DOMAIN src.data |->
                                   DivAligned(src.data[c], SeriesOfObj(m[env[e.by]]))])
          [] e.f = "empty" -> Obj("DataFrame", <<>>, <<>>)
          [] e.f = "div_columns" ->
                 SeriesObj("", FrameDiv(src.data[e.column],
                                        m[env[e.by]].data[e.by_column]))
          [] e.f = "mul_columns" ->
                 SeriesObj("", FrameMul(src.data[e.column],
                                        m[env[e.by]].data[e.by_column]))
          [] e.f = "sort_index" -> sort_index_columns(src)

----------------------------------------------------------------------------
(* The statements of the functions.  A statement binds a variable to a     *)
(* new object, changes the object of a variable in place, calls a          *)
(* function, returns or raises; the body of a function is the sequence of  *)
(* the statements that a call with the arguments a runs.                   *)

New(dst, e) == [op |-> "new", dst |-> dst, expr |-> e]

\* The default group_index=TICKER of the functions, and the group_index of
\* a call with the arguments a.
TICKER == "Ticker"
GroupIndexOf(a) == IF "group_index" \in DOMAIN a THEN a.group_index ELSE TICKER

\* df.groupby(group_index) in apply(df, func, group_index): it raises
\* KeyError when the MultiIndex of df has no level of that name.
Groupby(src, group_index) ==
    [op |-> "groupby", src |-> src, group_index |-> group_index]

\* dst = apply(df=src, func=func, group_index=group_index)
apply_statements(dst, src, func, group_index) ==
    <<Groupby(src, group_index),
      New(dst, [f |-> "apply", src |-> src, func |-> func])>>
InPlace(dst, e) == [op |-> "inplace", dst |-> dst, expr |-> e]
Call(dst, func, args, a) == [op |-> "call", dst |-> dst, func |-> func, args |-> args, a |-> a]
Return(src) == [op |-> "return", src |-> src]
Raise(err) == [op |-> "raise", err |-> err]

\* The statements s if the condition holds.
When(cond, s) == IF cond THEN s ELSE <<>>

\* df_result.rename(name, inplace=True)
rename_inplace(name) ==
    InPlace("df_result", [f |-> "rename", src |-> "df_result",
                          new_names |-> ("" :> name)])

\* free_cash_flow(df_cashflow)
free_cash_flow_body ==
    <<New("df_result", [f |-> "free_cash_flow", src |-> "df_cashflow"]),
      rename_inplace("FCF"),
      Return("df_result")>>

\* ncav(df_balance)
ncav_body ==
    <<New("df_result", [f |-> "ncav", src |-> "df_balance"]),
      rename_inplace("NCAV"),
      Return("df_result")>>

\* netnet(df_balance)
netnet_body ==
    <<New("df_result", [f |-> "netnet", src |-> "df_balance"]),
      rename_inplace("NETNET"),
      Return("df_result")>>

\* shares(df, index)
shares_body(a) ==
    <<New("df_shares", [f |-> "shares", src |-> "df", index |-> a.index]),
      Return("df_shares")>>

\* df2 = df.reset_index(date_index) without a new object: df2 is df.
df_reset_index_inplace(dst, src) == [op |-> "assign", dst |-> dst, src |-> src]

\* df2 = df.reset_index(date_index)
df_reset_index(dst, src) == New(dst, [f |-> "copy", src |-> src])

\* add_date_offset(df, offset)
add_date_offset_body(a) ==
    <<df_reset_index("df2", "df"),
      InPlace("df2", [f |-> "add_offset", src |-> "df2", offset |-> a.offset]),
      New("df2", [f |-> "copy", src |-> "df2"]),
      Return("df2")>>

\* rename_columns(df=df_result, new_names=new_names, inplace=True)
rename_columns_inplace(a) ==
    When(a.rename, <<InPlace("df_result", [f |-> "rename", src |-> "df_result",
                                           new_names |-> a.new_names])>>)

\* The statements of rel_change once the periods c are known.
rel_change_statements(a, c) ==
    IF c.err # "none" THEN <<Raise(c.err)>>
    ELSE apply_statements("df_result", "df",
                          [name |-> "_rel_change", periods |-> c.periods,
                           future |-> a.future],
                          GroupIndexOf(a))
         \o (IF a.annualized /\ c.shifted_years[1] = 0
             THEN <<Raise("ZeroDivisionError")>>
             ELSE <<New("df_result",
                        [f |-> "rel_change_result", src |-> "df_result",
                         annualized |-> a.annualized,
                         shifted_years |-> c.shifted_years])>>
                  \o rename_columns_inplace(a)
                  \o <<Return("df_result")>>)

\* rel_change(df, freq, ..., future, annualized, new_names)
rel_change_body(a) ==
    rel_change_statements(a, convert_to_periods(a.freq, DurOf(a)))

\* The statements of mean_log_change once the periods are known.
mean_log_change_statements(a, cmin, cmax) ==
    IF cmin.err # "none" THEN <<Raise(cmin.err)>>
    ELSE IF cmax.err # "none" THEN <<Raise(cmax.err)>>
    ELSE IF ~_assert_periods(cmin.periods, cmax.periods)
    THEN <<Raise("AssertionError")>>
    ELSE <<New("df_log", [f |-> "log", src |-> "df"])>>
         \o apply_statements("df_result", "df_log",
                             [name |-> "_mean_log_change", future |-> a.future,
                              min_periods |-> cmin.periods,
                              max_periods |-> cmax.periods,
                              exponent |-> exponent(a.annualized, a.future,
                                                    cmin, cmax)],
                             GroupIndexOf(a))
         \o rename_columns_inplace(a)
         \o <<Return("df_result")>>

\* mean_log_change(df, freq, future, ..., annualized, new_names)
mean_log_change_body(a) ==
    mean_log_change_statements(a, convert_to_periods(a.freq, MinDurOf(a)),
                               convert_to_periods(a.freq, MaxDurOf(a)))

\* resample(df, rule, method)
resample_body(a) ==
    IF _convert_method_arg(a.method).err # "none"
    THEN <<Raise(_convert_method_arg(a.method).err)>>
    ELSE apply_statements("df_result", "df",
                          [name |-> "_resample", rule |-> a.rule,
                           method |-> a.method],
                          GroupIndexOf(a))
         \o <<Return("df_result")>>

\* reindex(df_src, df_target, union, only_target_index, method)
reindex_body(a) ==
    IF _convert_method_arg(a.method).err # "none"
    THEN <<Raise(_convert_method_arg(a.method).err)>>
    ELSE <<New("df_result", [f |-> "reindex", src |-> "df_src",
                             target |-> "df_target", union |-> a.union])>>
         \o apply_statements("df_result", "df_result",
                             [name |-> "fill_func", method |-> a.method],
                             GroupIndexOf(a))
         \o When(a.union /\ a.only_target_index,
                 <<New("df_result", [f |-> "reindex", src |-> "df_result",
                                     target |-> "df_target", union |-> FALSE])>>)
         \o <<Return("df_result")>>

\* The last statements of the signal functions, on the variable df: the
\* function func on the data, the reindexing to df_prices, and
\* df_signals.sort_index(axis='columns', inplace=True).
func_statements(dst, a) ==
    When(a.func # "none",
         apply_statements(dst, dst, [name |-> a.func], GroupIndexOf(a)))

reindex_call(dst, src, a) ==
    Call(dst, "reindex", [df_src |-> src, df_target |-> "df_prices"],
         [union |-> TRUE, only_target_index |-> TRUE, method |-> a.fill_method,
          group_index |-> GroupIndexOf(a)])

offset_statements(dst, a) ==
    When(a.offset # NoOffset,
         <<Call(dst, "add_date_offset", [df |-> dst], [offset |-> a.offset])>>)

sort_index_inplace(dst) == InPlace(dst, [f |-> "sort_index", src |-> dst])

\* fin_signals(df_prices, df_income_ttm, df_cashflow_ttm, offset, func,
\* fill_method)
fin_signals_body(a) ==
    <<New("df1", [f |-> "getitem", src |-> "df_income_ttm",
                  columns |-> <<"REVENUE", "NET_INCOME">>]),
      New("df3", [f |-> "getitem", src |-> "df_cashflow_ttm",
                  columns |-> <<"DIVIDENDS_PAID">>]),
      Call("df_fcf", "free_cash_flow", [df_cashflow |-> "df_cashflow_ttm"], <<>>),
      New("df", [f |-> "concat", others |-> <<"df1", "df3", "df_fcf">>,
                 sorted |-> a.sorted])>>
    \o offset_statements("df", a)
    \o <<Groupby("df", GroupIndexOf(a)),
         New("df_signals", [f |-> "apply_signals", src |-> "df"])>>
    \o func_statements("df_signals", a)
    \o When(a.has_prices, <<reindex_call("df_signals", "df_signals", a)>>)
    \o <<sort_index_inplace("df_signals"), Return("df_signals")>>

\* One of the three calls of rel_change in growth_signals.
growth_call(dst, src, q, new_names) ==
    Call(dst, "rel_change", [df |-> src],
         [freq |-> "q", quarters |-> q, future |-> FALSE, annualized |-> FALSE,
          rename |-> TRUE, new_names |-> new_names])

\* growth_signals(df_prices, df_income_ttm, df_income_qrt, df_cashflow_ttm,
\* df_cashflow_qrt, offset, func, fill_method)
growth_signals_body(a) ==
    <<New("df_ttm1", [f |-> "getitem", src |-> "df_income_ttm",
                      columns |-> <<"REVENUE">>]),
      Call("df_ttm2", "free_cash_flow", [df_cashflow |-> "df_cashflow_ttm"], <<>>),
      New("df_ttm", [f |-> "concat", others |-> <<"df_ttm1", "df_ttm2">>,
                     sorted |-> a.sorted]),
      growth_call("df_growth", "df_ttm", 4,
                  [REVENUE |-> "SALES_GROWTH", FCF |-> "FCF_GROWTH"]),
      New("df_qrt1", [f |-> "getitem", src |-> "df_income_qrt",
                      columns |-> <<"REVENUE">>]),
      Call("df_qrt2", "free_cash_flow", [df_cashflow |-> "df_cashflow_qrt"], <<>>),
      New("df_qrt", [f |-> "concat", others |-> <<"df_qrt1", "df_qrt2">>,
                     sorted |-> a.sorted]),
      growth_call("df_growth_yoy", "df_qrt", 4,
                  [REVENUE |-> "SALES_GROWTH_YOY", FCF |-> "FCF_GROWTH_YOY"]),
      growth_call("df_growth_qoq", "df_qrt", 1,
                  [REVENUE |-> "SALES_GROWTH_QOQ", FCF |-> "FCF_GROWTH_QOQ"]),
      New("df_signals", [f |-> "concat", sorted |-> a.sorted,
                         others |-> <<"df_growth", "df_growth_yoy", "df_growth_qoq">>])>>
    \o offset_statements("df_signals", a)
    \o func_statements("df_signals", a)
    \o When(a.has_prices, <<reindex_call("df_signals", "df_signals", a)>>)
    \o <<sort_index_inplace("df_signals"), Return("df_signals")>>

\* df_signals[name] = the quotient or product of two columns.
signal_statements(name, f, src, column, by, by_column) ==
    <<New("signal", [f |-> f, src |-> src, column |-> column,
                     by |-> by, by_column |-> by_column]),
      InPlace("df_signals", [f |-> "setitem", src |-> "df_signals",
                             name |-> name, value |-> "signal"])>>

\* df[name] = func(df_src)
derived_statements(name, func, param, src) ==
    <<Call("derived", func, (param :> src), <<>>),
      InPlace("df", [f |-> "setitem", src |-> "df", name |-> name,
                     value |-> "derived"])>>

\* val_signals with the share counts taken after func has run.
val_signals_body_shares_after_func(a) ==
    <<New("df_inc", [f |-> "getitem", src |-> "df_income_ttm",
                     columns |-> <<"REVENUE", "SHARES_BASIC", "SHARES_DILUTED">>]),
      New("df_bal", [f |-> "getitem", src |-> "df_balance_ttm",
                     columns |-> <<"TOTAL_CUR_ASSETS", "TOTAL_LIABILITIES">>]),
      New("df_cf", [f |-> "getitem", src |-> "df_cashflow_ttm",
                    columns |-> <<"DIVIDENDS_PAID">>]),
      New("df", [f |-> "concat", others |-> <<"df_inc", "df_bal", "df_cf">>,
                 sorted |-> a.sorted])>>
    \o derived_statements("FCF", "free_cash_flow", "df_cashflow", "df_cashflow_ttm")
    \o derived_statements("NCAV", "ncav", "df_balance", "df_balance_ttm")
    \o derived_statements("NETNET", "netnet", "df_balance", "df_balance_ttm")
    \o offset_statements("df", a)
    \o func_statements("df", a)
    \o <<Call("df_shares", "shares", [df |-> "df"], [index |-> a.shares_index]),
         reindex_call("df_shares_daily", "df_shares", a)>>
    \o <<New("df_per_share", [f |-> "div", src |-> "df", by |-> "df_shares"]),
         reindex_call("df_daily", "df_per_share", a),
         New("df_signals", [f |-> "empty", src |-> "df_prices"])>>
    \o signal_statements("PSALES", "div_columns", "df_prices", "CLOSE", "df_daily", "REVENUE")
    \o signal_statements("PFCF", "div_columns", "df_prices", "CLOSE", "df_daily", "FCF")
    \o signal_statements("FCF_YIELD", "div_columns", "df_daily", "FCF", "df_prices", "CLOSE")
    \o signal_statements("MARKET_CAP", "mul_columns", "df_shares_daily", a.shares_index, "df_prices", "CLOSE")
    \o <<sort_index_inplace("df_signals"), Return("df_signals")>>

\* val_signals(df_prices, df_income_ttm, df_balance_ttm, df_cashflow_ttm,
\* offset, func, fill_method, shares_index)
val_signals_body(a) ==
    <<New("df_inc", [f |-> "getitem", src |-> "df_income_ttm",
                     columns |-> <<"REVENUE", "SHARES_BASIC", "SHARES_DILUTED">>]),
      New("df_bal", [f |-> "getitem", src |-> "df_balance_ttm",
                     columns |-> <<"TOTAL_CUR_ASSETS", "TOTAL_LIABILITIES">>]),
      New("df_cf", [f |-> "getitem", src |-> "df_cashflow_ttm",
                    columns |-> <<"DIVIDENDS_PAID">>]),
      New("df", [f |-> "concat", others |-> <<"df_inc", "df_bal", "df_cf">>,
                 sorted |-> a.sorted])>>
    \o derived_statements("FCF", "free_cash_flow", "df_cashflow", "df_cashflow_ttm")
    \o derived_statements("NCAV", "ncav", "df_balance", "df_balance_ttm")
    \o derived_statements("NETNET", "netnet", "df_balance", "df_balance_ttm")
    \o offset_statements("df", a)
    \o <<Call("df_shares", "shares", [df |-> "df"], [index |-> a.shares_index]),
         reindex_call("df_shares_daily", "df_shares", a)>>
    \o func_statements("df", a)
    \o <<New("df_per_share", [f |-> "div", src |-> "df", by |-> "df_shares"]),
         reindex_call("df_daily", "df_per_share", a),
         New("df_signals", [f |-> "empty", src |-> "df_prices"])>>
    \o signal_statements("PSALES", "div_columns", "df_prices", "CLOSE", "df_daily", "REVENUE")
    \o signal_statements("PFCF", "div_columns", "df_prices", "CLOSE", "df_daily", "FCF")
    \o signal_statements("FCF_YIELD", "div_columns", "df_daily", "FCF", "df_prices", "CLOSE")
    \o signal_statements("MARKET_CAP", "mul_columns", "df_shares_daily", a.shares_index, "df_prices", "CLOSE")
    \o <<sort_index_inplace("df_signals"), Return("df_signals")>>

\* The body of the function func called with the arguments a.
Body(func, a) ==
    CASE func = "free_cash_flow" -> free_cash_flow_body
      [] func = "ncav" -> ncav_body
      [] func = "netnet" -> netnet_body
      [] func = "shares" -> shares_body(a)
      [] func = "add_date_offset" -> add_date_offset_body(a)
      [] func = "rel_change" -> rel_change_body(a)
      [] func = "mean_log_change" -> mean_log_change_body(a)
      [] func = "resample" -> resample_body(a)
      [] func = "reindex" -> reindex_body(a)
      [] func = "fin_signals" -> fin_signals_body(a)
      [] func = "growth_signals" -> growth_signals_body(a)
      [] func = "val_signals" -> val_signals_body(a)

\* The object o with the name level of the entity level of its MultiIndex:
\* the objects that the functions make have the index names of the
\* objects they are made from, which are the panels of one caller.
Indexed(o, level) ==
    [type |-> o.type, columns |-> o.columns, data |-> o.data, level |-> level]

\* What running statements did: the memory after them, the object returned
\* and the exception raised.
Ran(m, ret, err) == [mem |-> m, ret |-> ret, err |-> err]

\* The statements prog run on the memory m, the variables of the function
\* bound as env says.
RECURSIVE RunBody(_, _, _), RunCall(_, _, _, _)
RunBody(m, env, prog) ==
    IF prog = <<>> THEN Ran(m, 0, "none")
    ELSE CASE Head(prog).op = "return" -> Ran(m, env[Head(prog).src], "none")
           [] Head(prog).op = "raise" -> Ran(m, 0, Head(prog).err)
           [] Head(prog).op = "assign" ->
                  RunBody(m, (Head(prog).dst :> env[Head(prog).src]) @@ env,
                          Tail(prog))
           [] Head(prog).op = "groupby" ->
                  IF m[env[Head(prog).src]].level # Head(prog).group_index
                  THEN Ran(m, 0, "KeyError")
                  ELSE RunBody(m, env, Tail(prog))
           [] Head(prog).op = "new" ->
                  RunBody(Append(m, Indexed(Value(Head(prog).expr, env, m), m[1].level)),
                          (Head(prog).dst :> (Len(m) + 1)) @@ env, Tail(prog))
           [] Head(prog).op = "inplace" ->
                  RunBody([m EXCEPT ![env[Head(prog).dst]] =
                               Indexed(Value(Head(prog).expr, env, m), m[1].level)],
                          env, Tail(prog))
           [] Head(prog).op = "call" ->
                  RunCall(m, env, prog,
                          RunBody(m, [p \in DOMAIN Head(prog).args |->
                                         env[Head(prog).args[p]]],
                                  Body(Head(prog).func, Head(prog).a)))

\* The statements after a call that did r: none if it raised.
RunCall(m, env, prog, r) ==
    IF r.err # "none" THEN r
    ELSE RunBody(r.mem, (Head(prog).dst :> r.ret) @@ env, Tail(prog))

----------------------------------------------------------------------------
(* The calls as a state machine on the memory: the datasets of two stocks  *)
(* are the objects the caller holds, a call of one of the functions runs   *)
(* its statements on the memory, and the caller then makes another call on *)
(* the same objects (the objects the last call made are dropped).          *)

\* The Balance Sheets.
BalanceOf(nB) ==
    LET dA == DatesTo(MaxReports, {})
        dB == DatesTo(nB, {})
    IN  [TOTAL_CUR_ASSETS |->
            TwoStocks(ColumnOf("A", dA, [d \in Days |-> <<9, 1>>]),
                      ColumnOf("B", dB, [d \in Days |-> <<8, 1>>])),
         TOTAL_LIABILITIES |->
            TwoStocks(ColumnOf("A", dA, [d \in Days |-> <<4, 1>>]),
                      ColumnOf("B", dB, [d \in Days |-> NaN])),
         CASH_EQUIV_ST_INVEST |->
            TwoStocks(ColumnOf("A", dA, [d \in Days |-> IF d = 1 THEN NaN ELSE <<2, 1>>]),
                      ColumnOf("B", dB, [d \in Days |-> <<1, 1>>])),
         ACC_NOTES_RECV |->
            TwoStocks(ColumnOf("A", dA, [d \in Days |-> <<4, 1>>]),
                      ColumnOf("B", dB, [d \in Days |-> NaN])),
         INVENTORIES |->
            TwoStocks(ColumnOf("A", dA, [d \in Days |-> IF d = 2 THEN NaN ELSE <<6, 1>>]),
                      ColumnOf("B", dB, [d \in Days |-> <<2, 1>>]))]

\* Cash-Flow Statements with missing operands of the Free Cash Flow: the
\* rows of A are (1000, -200), (NaN, -1), (3, NaN) and (NaN, NaN).
EdgeCashflow ==
    LET ops == <<(<<1000, 1>>), NaN, (<<3, 1>>), NaN>>
        capex == <<(<<-200, 1>>), (<<-1, 1>>), NaN, NaN>>
    IN  [NET_CASH_OPS |->
            TwoStocks([i \in 1..4 |-> Row("A", i, ops[i])], <<Row("B", 1, NaN)>>),
         CAPEX |->
            TwoStocks([i \in 1..4 |-> Row("A", i, capex[i])],
                      <<Row("B", 1, <<-2, 1>>)>>),
         DIVIDENDS_PAID |->
            TwoStocks([i \in 1..4 |-> Row("A", i, <<-1, 1>>)],
                      <<Row("B", 1, <<-2, 1>>)>>)]

\* Income Statements with missing share-counts: the rows of A have
\* (SHARES_BASIC, SHARES_DILUTED) = (50, 40), (50, NaN), (NaN, 40), (NaN, NaN).
EdgeIncome ==
    LET basic == <<(<<50, 1>>), (<<50, 1>>), NaN, NaN>>
        diluted == <<(<<40, 1>>), NaN, (<<40, 1>>), NaN>>
    IN  [REVENUE |->
            TwoStocks([i \in 1..4 |-> Row("A", i, <<2, 1>>)], <<Row("B", 1, <<5, 1>>)>>),
         NET_INCOME |->
            TwoStocks([i \in 1..4 |-> Row("A", i, <<1, 1>>)], <<Row("B", 1, <<7, 1>>)>>),
         SHARES_BASIC |->
            TwoStocks([i \in 1..4 |-> Row("A", i, basic[i])], <<Row("B", 1, NaN)>>),
         SHARES_DILUTED |->
            TwoStocks([i \in 1..4 |-> Row("A", i, diluted[i])],
                      <<Row("B", 1, <<5, 1>>)>>)]

\* The variables of the caller, in the order of their objects in memory.
InputNames ==
    <<"df", "df_prices", "df_income_ttm", "df_income_qrt", "df_balance_ttm",
      "df_cashflow_ttm", "df_cashflow_qrt">>

\* The objects of the caller: w says how many reports B has, whether the
\* Cash-Flow Statements of A have a gap, and whether they are EdgeCashflow.
InputsOf(w) ==
    LET inputs ==
    <<Obj("DataFrame", <<"REVENUE">>,
          Select(IncomeOf(RevenueOf(1), w.nB), {"REVENUE"})),
      Obj("DataFrame", <<"CLOSE">>, PricesOf("daily")),
      Obj("DataFrame", <<"REVENUE", "NET_INCOME", "SHARES_BASIC", "SHARES_DILUTED">>,
          IF w.edge THEN EdgeIncome ELSE IncomeOf(RevenueOf(1), w.nB)),
      Obj("DataFrame", <<"REVENUE", "NET_INCOME", "SHARES_BASIC", "SHARES_DILUTED">>,
          IncomeOf(RevenueOf(2), w.nB)),
      Obj("DataFrame",
          <<"TOTAL_CUR_ASSETS", "TOTAL_LIABILITIES", "CASH_EQUIV_ST_INVEST",
            "ACC_NOTES_RECV", "INVENTORIES">>,
          BalanceOf(w.nB)),
      Obj("DataFrame", <<"NET_CASH_OPS", "CAPEX", "DIVIDENDS_PAID">>,
          IF w.edge THEN EdgeCashflow ELSE CashflowOf(w.gap, w.nB)),
      Obj("DataFrame", <<"NET_CASH_OPS", "CAPEX", "DIVIDENDS_PAID">>,
          CashflowOf(w.gap, w.nB))>>
    IN  [i \in 1..Len(inputs) |-> Indexed(inputs[i], w.level)]

\* level is the name of the entity level of the index of the panels.
Worlds == [nB : {1, 2}, gap : BOOLEAN, edge : BOOLEAN, level : {TICKER, "SimFinId"}]

\* The variables of the caller as the arguments of a function.
SameNames(names) == [n \in names |-> n]

\* The calls with the arguments a of the functions funcs, the parameters
\* args bound to variables of the caller.
MemCallsOf(funcs, args, A) ==
    {[op |-> f, args |-> args, a |-> a] : f \in funcs, a \in A}

\* The calls of the derived metrics and of add_date_offset.
DerivedCalls ==
    MemCallsOf({"free_cash_flow"}, [df_cashflow |-> "df_cashflow_ttm"], {<<>>})
    \cup MemCallsOf({"ncav", "netnet"}, [df_balance |-> "df_balance_ttm"], {<<>>})
    \cup MemCallsOf({"shares"}, [df |-> "df_income_ttm"],
                    [index : {"SHARES_BASIC", "SHARES_DILUTED"}])
    \cup MemCallsOf({"add_date_offset"}, [df |-> "df_income_ttm"], [offset : {1}])

\* The calls of rel_change, mean_log_change, resample and reindex.
SeriesCalls ==
    MemCallsOf({"rel_change"}, SameNames({"df"}),
               [freq : {"q"}, quarters : {0, 1}, future : BOOLEAN,
                annualized : BOOLEAN, rename : BOOLEAN,
                new_names : {[REVENUE |-> "SALES_GROWTH"]}])
    \cup MemCallsOf({"mean_log_change"}, SameNames({"df"}),
                    [freq : {"q"}, min_quarters : {1, 2}, max_quarters : {2, 3},
                     future : BOOLEAN, annualized : BOOLEAN, rename : BOOLEAN,
                     new_names : {[REVENUE |-> "SALES_GROWTH"]}])
    \cup MemCallsOf({"resample"}, SameNames({"df"}),
                    [rule : {1, 2}, method : {"ffill", "mean", "none"}])
    \cup MemCallsOf({"reindex"}, [df_src |-> "df", df_target |-> "df_prices"],
                    [union : BOOLEAN, only_target_index : BOOLEAN,
                     method : {"ffill", "linear", "none"}])

\* The calls of the signal functions: df_prices is optional for
\* growth_signals and fin_signals.
SignalArgs(given) ==
    [offset : {NoOffset, 1}, func : {"none", "avg_ttm_2y"}, has_prices : given,
     fill_method : {"ffill"}, sorted : BOOLEAN,
     shares_index : {"SHARES_DILUTED"}]

AssemblerCalls ==
    MemCallsOf({"growth_signals", "fin_signals"}, SameNames(Range(InputNames)),
               SignalArgs(BOOLEAN))
    \cup MemCallsOf({"val_signals"}, SameNames(Range(InputNames)),
                    SignalArgs({TRUE}))

\* The calls on the objects of w: the functions that divide by the Free
\* Cash Flow are not called on EdgeCashflow, where it is zero.
MemCalls(w) ==
    {[world |-> w] @@ c :
        c \in IF w.edge THEN DerivedCalls
              ELSE DerivedCalls
                   \cup {[c EXCEPT !.a = [group_index |-> w.level] @@ @] :
                            c \in SeriesCalls \cup AssemblerCalls}}

InitMemory ==
    /\ freq = "q"
    /\ dur = [bdays |-> 0, days |-> 0, weeks |-> 0, months |-> 0,
              quarters |-> 0, years |-> 0]
    /\ conv = convert_to_periods(freq, dur)
    /\ df = NoFrame
    /\ \E w \in Worlds :
         /\ ~(w.edge /\ (w.gap \/ w.nB = 2))
         /\ call \in MemCalls(w)
         /\ mem = InputsOf(w)
    /\ out = Pending
    /\ disk = <<>>
    /\ now = 0

\* The call returns or raises: r is what its statements did.
Returns(r) ==
    /\ out' = [err |-> r.err, ret |-> r.ret, changed |-> FALSE]
    /\ mem' = r.mem

\* The function runs on the objects of its arguments.
CallFunction ==
    /\ out = Pending
    /\ mem # <<>>
    /\ Returns(RunBody(mem, [p \in DOMAIN call.args |->
                                CHOOSE i \in 1..Len(InputNames) :
                                    InputNames[i] = call.args[p]],
                       Body(call.op, call.a)))
    /\ UNCHANGED <<freq, dur, conv, df, call, disk, now>>

\* The caller makes another call on its objects.
NextCall ==
    /\ out # Pending
    /\ mem # <<>>
    /\ call' \in MemCalls(call.world)
    /\ out' = Pending
    /\ mem' = SubSeq(mem, 1, Len(InputNames))
    /\ UNCHANGED <<freq, dur, conv, df, disk, now>>

\* The caller changes the object that the call returned, in place: it sets
\* the first row to 0.
SetFirstRow(o) ==
    WithData(o, [c \in DOMAIN o.data |->
                    Frame(o.data[c].kind,
                          [i \in 1..Len(o.data[c].rows) |->
                              IF i = 1
                              THEN Row(o.data[c].rows[i].ticker,
                                       o.data[c].rows[i].date, Zero)
                              ELSE o.data[c].rows[i]])])

ChangeResult ==
    /\ out # Pending
    /\ mem # <<>>
    /\ out.err = "none"
    /\ ~out.changed
    /\ mem' = [mem EXCEPT ![out.ret] = Indexed(SetFirstRow(@), @.level)]
    /\ out' = [out EXCEPT !.changed = TRUE]
    /\ UNCHANGED <<freq, dur, conv, df, call, disk, now>>

NextMemory == CallFunction \/ ChangeResult \/ NextCall

SpecMemory == InitMemory /\ [][NextMemory]_vars

----------------------------------------------------------------------------
(* simfin/utils.py and simfin/cache.py: the ages of files and the @cache   *)
(* wrapper.  disk maps the paths of the files that exist to their          *)
(* modification time and content.  Time is counted in ticks, TicksPerDay   *)
(* of them a day.  The argument cache_refresh is a record with its Python  *)
(* type and value; the value None of an argument is the string "None".     *)

TicksPerDay == 2

\* A file written at time t.
File(t, content) == [mtime |-> t, content |-> content]

\* d with the file at path written at time t.
Written(d, path, t, content) ==
    [q \in DOMAIN d \cup {path} |-> IF q = path THEN File(t, content) ELSE d[q]]

\* os.path.exists(path)
exists(d, path) == path \in DOMAIN d

\* _file_age(path).days
_file_age_days(d, t, path) == (t - d[path].mtime) \div TicksPerDay

\* _is_file_newer(path, other_paths, no_exist=True): a string is a list of
\* one path, and the loop stops at the first file that path is not newer
\* than.
RECURSIVE _is_file_newer_loop(_, _, _, _)
_is_file_newer_loop(d, file_timestamp, other_paths, no_exist) ==
    IF other_paths = <<>> THEN TRUE
    ELSE LET is_newer == IF exists(d, Head(other_paths))
                         THEN file_timestamp > d[Head(other_paths)].mtime
                         ELSE no_exist
         IN  IF ~is_newer THEN FALSE
             ELSE _is_file_newer_loop(d, file_timestamp, Tail(other_paths),
                                      no_exist)

_is_file_newer(d, path, other_paths) ==
    _is_file_newer_loop(d, d[path].mtime, other_paths, TRUE)

\* _is_file_older(path, other_paths)
_is_file_older_than_all(d, path, other_paths) ==
    \A i \in 1..Len(other_paths) :
        exists(d, other_paths[i]) /\ d[path].mtime < d[other_paths[i]].mtime
_is_file_older(d, path, other_paths) == ~_is_file_newer(d, path, other_paths)

\* The values of cache_refresh.
RefreshNone == [type |-> "None"]
RefreshBool(b) == [type |-> "bool", flag |-> b]
RefreshInt(n) == [type |-> "int", days |-> n]
RefreshStr(path) == [type |-> "str", path |-> path]
RefreshList(paths) == [type |-> "list", paths |-> paths]
RefreshFloat(n) == [type |-> "float", number |-> n]

\* The list of paths that a string or a list of strings stands for.
PathsOf(cache_refresh) ==
    IF cache_refresh.type = "str" THEN <<cache_refresh.path>>
    ELSE cache_refresh.paths

\* _compose_cache_path(func, cache_name, cache_format)
_compose_cache_path(func, cache_name, cache_format) ==
    "cache/" \o func
    \o (IF cache_name # "None" THEN "-" \o cache_name ELSE "")
    \o "." \o cache_format

\* cache_format.startswith('pickle') or cache_format in ['parquet', 'feather']
ValidFormats == {"pickle", "pickle.gz", "parquet", "feather"}

\* What the wrapped function func computes for the keyword arguments.
Computed(func, kwargs) == [func |-> func, kwargs |-> kwargs]

\* What a call of the wrapper did: the exception it raised or the result,
\* the status it printed ("on disk", "not on disk" or nothing), whether it
\* called func, read the cache-file and wrote it, and the disk it left.
Wrapped(err, ret, msg, computed, loaded, saved, d) ==
    [err |-> err, ret |-> ret, msg |-> msg, computed |-> computed,
     loaded |-> loaded, saved |-> saved, disk |-> d]

\* compute, for a cache-file that exists: "invalid" where the wrapper
\* raises ValueError.
ShouldCompute(d, t, cache_path, cache_refresh) ==
    CASE cache_refresh.type = "bool" ->
            IF cache_refresh.flag THEN "yes" ELSE "no"
      [] cache_refresh.type = "int" ->
            IF cache_refresh.days = 0
               \/ _file_age_days(d, t, cache_path) > cache_refresh.days
            THEN "yes" ELSE "no"
      [] cache_refresh.type \in {"str", "list"} ->
            IF _is_file_older(d, cache_path, PathsOf(cache_refresh))
            THEN "yes" ELSE "no"
      [] OTHER -> "invalid"

\* The branch of the wrapper that uses the cache-file at cache_path.
WithCacheFile(d, t, c, cache_path, msg, compute) ==
    CASE compute = "invalid" ->
            Wrapped("ValueError", 0, msg, FALSE, FALSE, FALSE, d)
      [] compute = "no" ->
            Wrapped("none", d[cache_path].content, msg, FALSE, TRUE, FALSE, d)
      [] compute = "yes" ->
            Wrapped("none", Computed(c.func, c.kwargs), msg, TRUE, FALSE, TRUE,
                    Written(d, cache_path, t, Computed(c.func, c.kwargs)))

\* if os.path.exists(cache_path): ... else: compute = True
UseCacheFile(d, t, c, cache_path) ==
    IF exists(d, cache_path)
    THEN WithCacheFile(d, t, c, cache_path, "on disk",
                       ShouldCompute(d, t, cache_path, c.cache_refresh))
    ELSE WithCacheFile(d, t, c, cache_path, "not on disk", "yes")

\* wrapper(cache_name, cache_refresh, cache_format, **kwargs) at time t on
\* the disk d.
wrapper(d, t, c) ==
    IF c.cache_refresh.type = "None"
    THEN Wrapped("none", Computed(c.func, c.kwargs), "none", TRUE, FALSE,
                 FALSE, d)
    ELSE IF c.cache_format \notin ValidFormats
    THEN Wrapped("AssertionError", 0, "none", FALSE, FALSE, FALSE, d)
    ELSE UseCacheFile(d, t, c,
             _compose_cache_path(c.func, c.cache_name, c.cache_format))

----------------------------------------------------------------------------
(* The calls of a function wrapped by @cache as a state machine: time      *)
(* passes, dataset-files are downloaded, and the wrapped function is       *)
(* called with some keyword arguments and some cache arguments.            *)

MaxNow == 4
MaxCalls == 2

\* The dataset-files: the second one is never on disk.
DatasetPaths == <<"data/us-income-ttm.csv", "data/us-balance-ttm.csv">>

\* The values of cache_refresh in the calls.
Refreshes ==
    {RefreshNone, RefreshFloat(1)}
    \cup {RefreshBool(b) : b \in BOOLEAN}
    \cup {RefreshInt(n) : n \in {0, 1}}
    \cup {RefreshStr(DatasetPaths[1]), RefreshList(<<>>),
          RefreshList(DatasetPaths)}

\* The calls of the wrapped function "f" with the keyword argument x.
WrapperCalls ==
    [func : {"f"}, kwargs : [x : {1, 2}], cache_name : {"None", "a"},
     cache_refresh : Refreshes, cache_format : {"pickle"}]
    \cup [func : {"f"}, kwargs : [x : {1}], cache_name : {"a"},
          cache_refresh : {RefreshNone, RefreshBool(TRUE)},
          cache_format : {"csv"}]

InitCache ==
    /\ freq = "q"
    /\ dur = [bdays |-> 0, days |-> 0, weeks |-> 0, months |-> 0,
              quarters |-> 0, years |-> 0]
    /\ conv = convert_to_periods(freq, dur)
    /\ df = NoFrame
    /\ mem = <<>>
    /\ call = [op |-> "none", n |-> 0]
    /\ out = Pending
    /\ disk = (DatasetPaths[1] :> File(0, 0))
    /\ now = 0

\* Time passes.
Tick ==
    /\ "n" \in DOMAIN call
    /\ now < MaxNow
    /\ now' = now + 1
    /\ UNCHANGED <<freq, dur, conv, df, call, out, mem, disk>>

\* A dataset-file is downloaded again: it is written now, with the content
\* that the server has now.
Download ==
    /\ "n" \in DOMAIN call
    /\ disk' = Written(disk, DatasetPaths[1], now, now)
    /\ disk' # disk
    /\ UNCHANGED <<freq, dur, conv, df, call, out, mem, now>>

\* The wrapper has run: r is what it did.
WrapperReturns(r) ==
    /\ out' = [err |-> r.err, ret |-> r.ret, msg |-> r.msg,
               computed |-> r.computed, loaded |-> r.loaded, saved |-> r.saved]
    /\ disk' = r.disk

\* The wrapped function is called.
CallWrapper ==
    /\ "n" \in DOMAIN call
    /\ call.n < MaxCalls
    /\ \E c \in WrapperCalls :
         /\ call' = [op |-> "wrapper", n |-> call.n + 1] @@ c
         /\ WrapperReturns(wrapper(disk, now, c))
    /\ UNCHANGED <<freq, dur, conv, df, mem, now>>

NextCache == Tick \/ Download \/ CallWrapper

SpecCache == InitCache /\ [][NextCache]_vars

----------------------------------------------------------------------------
(* simfin/paths.py, simfin/download.py, simfin/load.py and simfin/hubs.py: *)
(* the StockHub.  A hub is the record of the arguments of __init__.  A     *)
(* call of one of its methods loads the datasets, which downloads those    *)
(* that are not on disk or too old, and calls the wrapped function with    *)
(* the cache arguments of _cache_args.  The content of a dataset on the    *)
(* server at time t is t, and the hash of a string is the string.          *)

\* _filename_dataset(dataset, market, variant, extension='csv') and
\* _path_dataset(dataset, market, variant)
_filename_dataset(dataset, market, variant) ==
    market \o "-" \o dataset \o "-" \o variant \o ".csv"
_path_dataset(dataset, market, variant) ==
    "data/" \o _filename_dataset(dataset, market, variant)

\* must_download of _maybe_download(path, refresh_days)
must_download(d, t, path, refresh_days) ==
    \/ ~exists(d, path)
    \/ _file_age_days(d, t, path) >= refresh_days
    \/ refresh_days = 0

\* _maybe_download(path, refresh_days) when the download succeeds: the disk
\* it leaves.
_maybe_download(d, t, path, refresh_days) ==
    IF must_download(d, t, path, refresh_days) THEN Written(d, path, t, t)
    ELSE d

\* self._dataset_extension
_dataset_extension(hub) ==
    IF hub.banks THEN "-banks" ELSE IF hub.insurance THEN "-insurance" ELSE ""

\* load_shareprices(variant) and load_fundamental(dataset, variant) of the
\* hub: the dataset that load() is called with and its refresh_days.
load_shareprices(hub, variant) ==
    [dataset |-> "shareprices", variant |-> variant,
     refresh_days |-> hub.refresh_days_shareprices]
load_fundamental(hub, dataset, variant) ==
    [dataset |-> dataset \o _dataset_extension(hub), variant |-> variant,
     refresh_days |-> hub.refresh_days]

\* The fundamental datasets of the signals: TTM only, or TTM and quarterly.
FundamentalTTM == <<<<"income", "ttm">>, <<"balance", "ttm">>, <<"cashflow", "ttm">>>>
FundamentalAll ==
    <<<<"income", "ttm">>, <<"income", "quarterly">>, <<"balance", "ttm">>,
      <<"balance", "quarterly">>, <<"cashflow", "ttm">>,
      <<"cashflow", "quarterly">>>>

\* The share-prices of the signals: none for variant='quarterly'.
PricesOfVariant(variant) ==
    IF variant = "quarterly" THEN <<>> ELSE <<<<"shareprices", variant>>>>

\* _func_name(func): a function is the record of its name and its code.
NoFunc == [name |-> "None", code |-> "None"]
_func_name(func) == IF func = NoFunc THEN "None" ELSE func.name

\* The method m of the hub with the arguments a: the wrapped function it
\* calls, the list datasets, and the list cache_ids.
HubMethod(m, a) ==
    CASE m = "returns" ->
            [func |-> "rel_change", datasets |-> <<<<"shareprices", "daily">>>>,
             cache_ids |-> <<a.name, a.future>>]
      [] m = "mean_log_returns" ->
            [func |-> "mean_log_change",
             datasets |-> <<<<"shareprices", "daily">>>>,
             cache_ids |-> <<a.name, a.future>>]
      [] m = "price_signals" ->
            [func |-> "price_signals", datasets |-> <<<<"shareprices", "daily">>>>,
             cache_ids |-> <<>>]
      [] m = "volume_signals" ->
            [func |-> "volume_signals",
             datasets |-> <<<<"shareprices", "daily">>, <<"income", "ttm">>>>,
             cache_ids |-> <<a.window, a.shares_index>>]
      [] m = "growth_signals" ->
            [func |-> "growth_signals",
             datasets |-> FundamentalAll \o PricesOfVariant(a.variant),
             cache_ids |-> <<a.variant, _func_name(a.func)>>]
      [] m = "fin_signals" ->
            [func |-> "fin_signals",
             datasets |-> FundamentalTTM \o PricesOfVariant(a.variant),
             cache_ids |-> <<a.variant, _func_name(a.func)>>]
      [] m = "val_signals" ->
            [func |-> "val_signals",
             datasets |-> <<<<"shareprices", a.variant>>>> \o FundamentalTTM,
             cache_ids |-> <<a.variant, _func_name(a.func), a.shares_index>>]

\* The datasets that the method loads, as load() is called with them.
Loads(hub, datasets) ==
    [i \in 1..Len(datasets) |->
        IF datasets[i][1] = "shareprices"
        THEN load_shareprices(hub, datasets[i][2])
        ELSE load_fundamental(hub, datasets[i][1], datasets[i][2])]

\* load(dataset, variant, market, refresh_days) for each dataset of loads
\* in turn: the disk it leaves.
RECURSIVE load_all(_, _, _, _)
load_all(d, t, market, loads) ==
    IF loads = <<>> THEN d
    ELSE load_all(_maybe_download(d, t,
                      _path_dataset(Head(loads).dataset, market,
                                    Head(loads).variant),
                      Head(loads).refresh_days),
                  t, market, Tail(loads))

\* The DataFrames that the method has loaded: the contents of the files.
Loaded(d, market, loads) ==
    [i \in 1..Len(loads) |->
        d[_path_dataset(loads[i].dataset, market, loads[i].variant)].content]

\* '-'.join(map(str, ids))
RECURSIVE join(_)
join(ids) ==
    IF ids = <<>> THEN ""
    ELSE IF Len(ids) = 1 THEN Head(ids)
    ELSE Head(ids) \o "-" \o join(Tail(ids))

\* self._cache_ids
_cache_ids(hub) ==
    <<hub.market, hub.group_index, hub.date_index, hub.offset,
      hub.fill_method, _dataset_extension(hub), "None">>

\* _cache_args(datasets, cache_ids)
dataset_paths(hub, datasets) ==
    [i \in 1..Len(datasets) |->
        _path_dataset(datasets[i][1] \o _dataset_extension(hub), hub.market,
                      datasets[i][2])]

_cache_args(hub, datasets, cache_ids) ==
    [cache_name |-> join(_cache_ids(hub) \o cache_ids),
     cache_refresh |-> RefreshList(dataset_paths(hub, datasets)),
     cache_format |-> hub.cache_format]

\* The call of the wrapped function by the method md of the hub, on the
\* disk d that the loads left.
HubWrapperCall(d, hub, a, md) ==
    [func |-> md.func,
     kwargs |-> [data |-> Loaded(d, hub.market, Loads(hub, md.datasets)),
                 args |-> a]]
    @@ _cache_args(hub, md.datasets, md.cache_ids)

----------------------------------------------------------------------------
(* The calls of the methods of new hubs as a state machine: time passes,   *)
(* and a hub is created and one of its methods is called.                  *)

Hubs ==
    [market : {"us"}, banks : BOOLEAN, insurance : BOOLEAN,
     refresh_days : {1}, refresh_days_shareprices : {1},
     group_index : {"Ticker"}, date_index : {"Report Date"},
     offset : {"None"}, fill_method : {"ffill"}, cache_format : {"pickle"}]

\* Two functions of the caller with the same name.
Lambdas == {[name |-> "<lambda>", code |-> c] : c \in {"x * 2", "x + 1"}}

\* The methods with their arguments.
HubCalls ==
    [method : {"returns", "mean_log_returns"}, a : [name : {"None"}, future : {"True"}]]
    \cup [method : {"price_signals"}, a : {<<>>}]
    \cup [method : {"volume_signals"},
          a : [window : {"20"}, shares_index : {"Shares (Basic)"}]]
    \cup [method : {"growth_signals", "fin_signals"},
          a : [variant : {"daily", "quarterly"}, func : {NoFunc} \cup Lambdas]]
    \cup [method : {"val_signals"},
          a : [variant : {"daily"}, func : {NoFunc} \cup Lambdas,
               shares_index : {"Shares (Diluted)"}]]

InitHub ==
    /\ freq = "q"
    /\ dur = [bdays |-> 0, days |-> 0, weeks |-> 0, months |-> 0,
              quarters |-> 0, years |-> 0]
    /\ conv = convert_to_periods(freq, dur)
    /\ df = NoFrame
    /\ mem = <<>>
    /\ call = [op |-> "none", n |-> 0]
    /\ out = Pending
    /\ disk = <<>>
    /\ now = 0

\* The method of a new hub runs on the disk d that its loads left.
HubMethodRuns(d, hub, h, md) ==
    /\ call' = [op |-> "hub", n |-> call.n + 1, hub |-> hub,
                method |-> h.method, a |-> h.a]
               @@ HubWrapperCall(d, hub, h.a, md)
    /\ WrapperReturns(wrapper(d, now, HubWrapperCall(d, hub, h.a, md)))

\* A hub is created and one of its methods is called.
CallHub ==
    /\ "n" \in DOMAIN call
    /\ call.n < MaxCalls
    /\ \E hub \in Hubs, h \in HubCalls :
         HubMethodRuns(load_all(disk, now, hub.market,
                                Loads(hub, HubMethod(h.method, h.a).datasets)),
                       hub, h, HubMethod(h.method, h.a))
    /\ UNCHANGED <<freq, dur, conv, df, mem, now>>

NextHub == Tick \/ CallHub

SpecHub == InitHub /\ [][NextHub]_vars

----------------------------------------------------------------------------
(* simfin/download.py: a call of _maybe_download step by step.  The call    *)
(* decides whether to download, the server responds with a status, the     *)
(* body arrives in chunks that are written to download_path, and the       *)
(* downloaded file is extracted or moved to the data-dir.  The content of  *)
(* a file is the version of the data on the server it was downloaded from  *)
(* and the number of chunks it holds.                                      *)

\* The chunks of the body of a response.
NumChunks == 2
\* The calls of _maybe_download in a run.
MaxDownloads == 2

Bytes(version, chunks) == [version |-> version, chunks |-> chunks]

\* path and download_path of a dataset (_maybe_download_dataset) and of an
\* info-file (_maybe_download_info).
DownloadFiles ==
    {[path |-> "data/us-income-ttm.csv",
      download_path |-> "download/us-income-ttm.zip"],
     [path |-> "data/info/datasets.json",
      download_path |-> "download/datasets.json"]}

\* download_path.endswith('zip')
endswith_zip(download_path) == download_path \in {"download/us-income-ttm.zip"}

\* The file at path, if there is one.
FileAt(d, path) == [q \in DOMAIN d \cap {path} |-> d[q]]

\* d without the file at path.
Removed(d, path) == [q \in DOMAIN d \ {path} |-> d[q]]

\* open(download_path, 'wb') in _download: the file is created or truncated.
_download_open_destination(d, t, c) == Written(d, c.path, t, Bytes(t, 0))

_download_open(d, t, c) == Written(d, c.download_path, t, Bytes(t, 0))

\* file.write(chunk) in _download.
_download_write(d, t, c) ==
    Written(d, c.download_path, t,
            IF exists(d, c.download_path)
            THEN Bytes(d[c.download_path].content.version,
                       d[c.download_path].content.chunks + 1)
            ELSE Bytes(t, 1))

\* zipfile.ZipFile(file=download_path, mode='r').extractall(get_data_dir())
\* or os.replace(download_path, path): the exception or "none", and the disk.
extract_or_move(d, t, c) ==
    IF ~exists(d, c.download_path)
    THEN [err |-> "FileNotFoundError", disk |-> d]
    ELSE IF endswith_zip(c.download_path)
    THEN IF d[c.download_path].content.chunks < NumChunks
         THEN [err |-> "BadZipFile", disk |-> d]
         ELSE [err |-> "none",
               disk |-> Written(d, c.path, t, d[c.download_path].content)]
    ELSE [err |-> "none",
          disk |-> [q \in (DOMAIN d \ {c.download_path}) \cup {c.path} |->
                       IF q = c.path THEN d[c.download_path] ELSE d[q]]]

\* The call with its position pc.
At(c, pc) == [c EXCEPT !.pc = pc]

\* What _maybe_download returned or raised.
Ended(err, ret) == [err |-> err, ret |-> ret]

InitDownload ==
    /\ freq = "q"
    /\ dur = [bdays |-> 0, days |-> 0, weeks |-> 0, months |-> 0,
              quarters |-> 0, years |-> 0]
    /\ conv = convert_to_periods(freq, dur)
    /\ df = NoFrame
    /\ mem = <<>>
    /\ call = [op |-> "none", n |-> 0, pc |-> "returned"]
    /\ out = Pending
    /\ \E S \in SUBSET {f.path : f \in DownloadFiles} :
           disk = [q \in S |-> File(0, Bytes(0, NumChunks))]
    /\ now = 0

\* _maybe_download(path, download_path, refresh_days) is called and decides
\* whether the file must be downloaded.
MaybeDownload ==
    /\ "pc" \in DOMAIN call
    /\ call.pc \in {"returned", "raised"}
    /\ call.n < MaxDownloads
    /\ \E f \in DownloadFiles, refresh_days \in {0, 1} :
         LET c == [op |-> "_maybe_download", n |-> call.n + 1, path |-> f.path,
                   download_path |-> f.download_path,
                   refresh_days |-> refresh_days,
                   before |-> FileAt(disk, f.path), pc |-> "request"]
         IN  IF must_download(disk, now, f.path, refresh_days)
             THEN call' = c /\ out' = Pending
             ELSE call' = At(c, "returned") /\ out' = Ended("none", FALSE)
    /\ UNCHANGED <<freq, dur, conv, df, mem, disk, now>>

\* requests.get(url, stream=True) in _download: the connection fails, or
\* the server responds with a status code.
Respond ==
    /\ "pc" \in DOMAIN call /\ call.pc = "request"
    /\ \E status_code \in {0, 200, 204, 400, 404} :
         CASE status_code = 200 ->
                /\ disk' = _download_open(disk, now, call)
                /\ call' = At(call, "streaming")
                /\ out' = out
           [] status_code = 400 ->
                /\ call' = At(call, "raised")
                /\ out' = Ended("ServerException", FALSE)
                /\ disk' = disk
           [] status_code = 404 ->
                \* response.raise_for_status() raises for 4xx and 5xx
                /\ call' = At(call, "raised")
                /\ out' = Ended("HTTPError", FALSE)
                /\ disk' = disk
           [] status_code = 204 ->
                \* response.raise_for_status() returns
                /\ call' = At(call, "downloaded")
                /\ out' = out
                /\ disk' = disk
           [] status_code = 0 ->
                /\ call' = At(call, "raised")
                /\ out' = Ended("ConnectionError", FALSE)
                /\ disk' = disk
    /\ UNCHANGED <<freq, dur, conv, df, mem, now>>

\* A chunk of the body arrives and is written.
WriteChunk ==
    /\ "pc" \in DOMAIN call /\ call.pc = "streaming"
    /\ disk' = _download_write(disk, now, call)
    /\ call' = At(call, IF disk'[call.download_path].content.chunks >= NumChunks
                        THEN "downloaded" ELSE "streaming")
    /\ UNCHANGED <<freq, dur, conv, df, out, mem, now>>

\* The connection breaks while the body is streamed.
StreamFails ==
    /\ "pc" \in DOMAIN call /\ call.pc = "streaming"
    /\ call' = At(call, "raised")
    /\ out' = Ended("ChunkedEncodingError", FALSE)
    /\ UNCHANGED <<freq, dur, conv, df, mem, disk, now>>

\* _download has returned: the downloaded file is extracted or moved.
ExtractOrMove ==
    /\ "pc" \in DOMAIN call /\ call.pc = "downloaded"
    /\ LET r == extract_or_move(disk, now, call)
       IN  /\ disk' = r.disk
           /\ call' = At(call, IF r.err = "none" THEN "returned" ELSE "raised")
           /\ out' = Ended(r.err, r.err = "none")
    /\ UNCHANGED <<freq, dur, conv, df, mem, now>>

NextDownload ==
    Tick \/ MaybeDownload \/ Respond \/ WriteChunk \/ StreamFails \/ ExtractOrMove

SpecDownload == InitDownload /\ [][NextDownload]_vars

----------------------------------------------------------------------------
(* trade_signals as a state machine: a DataFrame with two signals of one   *)
(* or two stocks, then the call.                                           *)

\* The rows of the first stock.
MaxTrade == 4
\* The rows of the second stock.
MaxTradeB == 2

\* The pairs of signal1 and signal2: below, above, equal, and missing.
TradeVals ==
    {<<<<2, 1>>, <<3, 1>>>>, <<<<3, 1>>, <<2, 1>>>>, <<<<2, 1>>, <<2, 1>>>>,
     <<NaN, <<2, 1>>>>}
TradeValsB == {<<<<2, 1>>, <<3, 1>>>>, <<<<3, 1>>, <<2, 1>>>>}

TradeFrames ==
    {Frame("MultiIndex", SeriesOf("A", a) \o SeriesOf("B", b)) :
        a \in SeqsUpTo(TradeVals, MaxTrade), b \in SeqsUpTo(TradeValsB, MaxTradeB)}
    \cup {Frame("DatetimeIndex", SeriesOf("", a)) : a \in SeqsUpTo(TradeVals, MaxTrade)}

InitTrade ==
    /\ freq = "q"
    /\ dur = [bdays |-> 0, days |-> 0, weeks |-> 0, months |-> 0,
              quarters |-> 0, years |-> 0]
    /\ conv = convert_to_periods(freq, dur)
    /\ df \in TradeFrames
    /\ call = [op |-> "trade_signals", signal1 |-> "SMA_20", signal2 |-> "SMA_200"]
    /\ out = Pending
    /\ mem = <<>>
    /\ disk = <<>>
    /\ now = 0

TradeSignals ==
    /\ call.op = "trade_signals"
    /\ out = Pending
    /\ out' = trade_signals(df)
    /\ UNCHANGED <<freq, dur, conv, df, call, mem, disk, now>>

NextTrade == TradeSignals

SpecTrade == InitTrade /\ [][NextTrade]_vars

----------------------------------------------------------------------------
(* What the properties below speak of.                                     *)

\* The index values "" (a DatetimeIndex frame) and the tickers.
Entities == {"", "A", "B"}

\* The values of one entity's rows, in order.
ValsOf(d, e) == [i \in 1..Len(GroupRows(d, e)) |-> GroupRows(d, e)[i].val]

\* The call of the named function has returned or raised.
Called(op) == call.op = op /\ out # Pending

\* The frequency strings the documentation of convert_to_periods lists,
\* which it accepts in any case of the letters.
SupportedFreqs ==
    {"bdays", "b", "days", "d", "weeks", "w", "months", "m", "quarters", "q",
     "ttm", "years", "y", "annual", "a"}

\* The step count of the duration of a call of rel_change.
StepsOf(a) == convert_to_periods(a.freq, DurOf(a)).periods

\* series[t] / series[t-p] (past) or series[t+p] / series[t] (future),
\* NaN where the other row does not exist.
ChangeRatio(s, t, p, future) ==
    IF future
    THEN IF t + p <= Len(s) THEN VDiv(s[t + p], s[t]) ELSE NaN
    ELSE IF t - p >= 1 THEN VDiv(s[t], s[t - p]) ELSE NaN

\* The call a of an operation on the frame d.
Run(d, a) ==
    CASE a.op = "rel_change" -> rel_change(d, a)
      [] a.op = "mean_log_change" -> mean_log_change(d, a)
      [] a.op = "resample" -> resample(d, a)
      [] a.op = "reindex" -> reindex(d, a)

\* The panel with the rows of one stock only, and the call on it: the
\* target of reindex is cut down in the same way.
Restrict(d, e) == Frame(d.kind, GroupRows(d, e))
RestrictCall(a, e) ==
    IF a.op = "reindex"
    THEN [a EXCEPT !.df_target = Restrict(a.df_target, e)]
    ELSE a

\* The series of one stock under a DatetimeIndex, and the call on it.
Single(d, e) == Frame("DatetimeIndex", reset_index(GroupRows(d, e)))
SingleCall(a, e) ==
    IF a.op = "reindex"
    THEN [a EXCEPT !.df_target = Single(a.df_target, e)]
    ELSE a

\* C1: entity isolation.  The result of rel_change, mean_log_change,
\* resample or reindex on a panel of two stocks has, for each stock, exactly
\* the rows that the same call gives on the panel of that stock alone, and
\* the dates and values that it gives on that stock's series under a
\* DatetimeIndex; the call raises on the panel exactly what it raises on the
\* stock alone.
C1_EntityIsolation ==
    (call.op \in {"rel_change", "mean_log_change", "resample", "reindex"}
     /\ df.kind = "MultiIndex" /\ out # Pending)
    => \A e \in {"A", "B"} :
          LET alone == Run(Restrict(df, e), RestrictCall(call, e))
              single == Run(Single(df, e), SingleCall(call, e))
          IN  /\ out.err = alone.err
              /\ out.err = single.err
              /\ GroupRows(out.df, e) = alone.df.rows
              /\ reset_index(GroupRows(out.df, e)) = single.df.rows

\* A forward fill on a panel where the last row of A holds a value and the
\* first row of B, which follows it, holds none.
C1_Witness ==
    /\ Called("reindex")
    /\ call.method = "ffill"
    /\ out.err = "none"
    /\ GroupRows(out.df, "A") # <<>>
    /\ GroupRows(out.df, "B") # <<>>
    /\ ~IsNaN(GroupRows(out.df, "A")[Len(GroupRows(out.df, "A"))].val)
    /\ IsNaN(GroupRows(out.df, "B")[1].val)
    /\ \E i \in 1..Len(GroupRows(out.df, "B")) :
          ~IsNaN(GroupRows(out.df, "B")[i].val)

\* The call a of a signal function.
Signals(a) ==
    CASE a.op = "growth_signals" -> growth_signals(a)
      [] a.op = "fin_signals" -> fin_signals(a)
      [] a.op = "val_signals" -> val_signals(a)

\* A DataFrame with the rows of the stocks of S only.
RowsOfStocks(D, S) ==
    [c \in DOMAIN D |->
        Frame(D[c].kind, SelectSeq(D[c].rows, LAMBDA r : r.ticker \in S))]

\* The call of a signal function with every dataset cut down to the stocks
\* of S.
SubsetCall(a, S) ==
    [a EXCEPT !.df_prices = RowsOfStocks(@, S),
              !.df_income_ttm = RowsOfStocks(@, S),
              !.df_income_qrt = RowsOfStocks(@, S),
              !.df_cashflow_ttm = RowsOfStocks(@, S),
              !.df_cashflow_qrt = RowsOfStocks(@, S)]

\* C2: subset equality of the signal functions.  With func absent or
\* avg_ttm_2y and the result reindexed to the share-prices, the signals of
\* growth_signals, fin_signals and val_signals computed from the datasets
\* of a subset of the stocks are exactly the rows that the signals computed
\* from the datasets of all the stocks have for the subset.
C2_SubsetEquality ==
    (call.op \in {"growth_signals", "fin_signals", "val_signals"}
     /\ call.has_prices /\ out # Pending)
    => \A S \in {{"A"}, {"B"}} :
          RowsOfStocks(out.df, S) = Signals(SubsetCall(call, S))

\* Two-year averages reindexed to the share-prices, where a signal of A has
\* values and the same signal of B, whose rows follow, starts without one.
C2_Witness ==
    /\ call.op \in {"growth_signals", "fin_signals", "val_signals"}
    /\ out # Pending
    /\ call.func = "avg_ttm_2y"
    /\ call.has_prices
    /\ \E c \in DOMAIN out.df :
          /\ GroupRows(out.df[c], "A") # <<>>
          /\ GroupRows(out.df[c], "B") # <<>>
          /\ ~IsNaN(GroupRows(out.df[c], "A")[Len(GroupRows(out.df[c], "A"))].val)
          /\ IsNaN(GroupRows(out.df[c], "B")[1].val)

----------------------------------------------------------------------------
(* C3: rel_change with future = false and annualized = false gives, for    *)
(* every entity and every row t, series[t] / series[t-p] - 1 when t >= p   *)
(* (rows counted from 0), and no value for exactly the first p rows: the   *)
(* later rows have a value wherever both series[t] and series[t-p] have.   *)
C3_RelChangePast ==
    (Called("rel_change") /\ out.err = "none"
        /\ ~call.future /\ ~call.annualized) =>
    /\ IndexOf(out.df) = IndexOf(df)
    /\ \A e \in Entities :
        LET s == ValsOf(df, e)
            r == ValsOf(out.df, e)
            p == StepsOf(call)
        IN  \A t \in 1..Len(s) :
              /\ t > p => r[t] = VSub(VDiv(s[t], s[t - p]), One)
              /\ t <= p => IsNaN(r[t])
              /\ (t > p /\ ~IsNaN(s[t]) /\ ~IsNaN(s[t - p])) => ~IsNaN(r[t])

\* The series 2, 3, 3 with p = 1 gives NaN, 1/2, 0.
C3_Witness ==
    /\ Called("rel_change") /\ out.err = "none"
    /\ ~call.future /\ ~call.annualized /\ out.periods = 1
    /\ ValsOf(df, "A") = <<<<2, 1>>, <<3, 1>>, <<3, 1>>>>
    /\ ValsOf(out.df, "A") = <<NaN, <<1, 2>>, <<0, 1>>>>

----------------------------------------------------------------------------
(* C4: rel_change with future = true and annualized = false gives, for     *)
(* every entity and every row t, series[t+p] / series[t] - 1 when the row  *)
(* t+p exists in the entity's series, and no value for exactly the last p  *)
(* rows.                                                                   *)
C4_RelChangeFuture ==
    (Called("rel_change") /\ out.err = "none"
        /\ call.future /\ ~call.annualized) =>
    /\ IndexOf(out.df) = IndexOf(df)
    /\ \A e \in Entities :
        LET s == ValsOf(df, e)
            r == ValsOf(out.df, e)
            p == StepsOf(call)
        IN  \A t \in 1..Len(s) :
              /\ t + p <= Len(s) => r[t] = VSub(VDiv(s[t + p], s[t]), One)
              /\ t + p > Len(s) => IsNaN(r[t])
              /\ (t + p <= Len(s) /\ ~IsNaN(s[t]) /\ ~IsNaN(s[t + p]))
                    => ~IsNaN(r[t])

\* The series 2, 3, 3 with p = 2 gives 1/2, NaN, NaN.
C4_Witness ==
    /\ Called("rel_change") /\ out.err = "none"
    /\ call.future /\ ~call.annualized /\ out.periods = 2
    /\ ValsOf(df, "A") = <<<<2, 1>>, <<3, 1>>, <<3, 1>>>>
    /\ ValsOf(out.df, "A") = <<<<1, 2>>, NaN, NaN>>
    /\ Len(ValsOf(df, "B")) = 1

----------------------------------------------------------------------------
(* C5: for every supported frequency and non-negative duration the step    *)
(* count of convert_to_periods is an integer within 1/2 of the per-year    *)
(* constant of the frequency times total_years.                            *)
C5_RoundsToNearest ==
    conv.err = "none" =>
    LET x == YearsTimes(FreqUnit(freq), dur)
        k == conv.periods - x.i
    IN  /\ conv.periods \in Int
        /\ \/ k = 0 /\ 2 * x.n <= x.d
           \/ k = 1 /\ 2 * (x.d - x.n) <= x.d

\* One year of trading days is 251.67 steps, rounded up to 252.
C5_Witness ==
    /\ freq = "b"
    /\ dur = [bdays |-> 0, days |-> 0, weeks |-> 0, months |-> 0,
              quarters |-> 0, years |-> 1]
    /\ conv.err = "none" /\ conv.periods = 252

----------------------------------------------------------------------------
(* C6: the years that convert_to_periods returns are the rounded step      *)
(* count divided by the per-year constant of the frequency, and annualized *)
(* rel_change is ratio ** (1/years) - 1 with these years.                  *)
C6_YearsFromSteps ==
    ((Called("rel_change") \/ Called("convert_to_periods")) /\ out.err = "none") =>
    LET years == RDiv(RInt(out.periods), PerYear(FreqUnit(call.freq)))
    IN  /\ out.periods = StepsOf(call)
        /\ out.shifted_years = years
        /\ (call.op = "rel_change" /\ call.annualized) =>
             \A e \in Entities :
               LET s == ValsOf(df, e)
                   r == ValsOf(out.df, e)
               IN  \A t \in 1..Len(s) :
                     r[t] = VPowSub1(ChangeRatio(s, t, out.periods, call.future),
                                     RInv(years))

\* 7 quarters at the frequency of years: 2 steps and 2 years, the exponent
\* 1/2 on the ratio 3/2.
C6_Witness ==
    /\ Called("rel_change") /\ out.err = "none"
    /\ call.freq = "y" /\ call.quarters = 7 /\ call.annualized /\ ~call.future
    /\ out.periods = 2 /\ out.shifted_years = <<2, 1>>
    /\ ValsOf(df, "A") = <<<<2, 1>>, <<3, 1>>, <<3, 1>>>>
    /\ ValsOf(out.df, "A") = <<NaN, NaN, <<3, 2, 1, 2>>>>

----------------------------------------------------------------------------
(* C7: convert_to_periods is monotonic: one more of any unit of the        *)
(* duration, at the same frequency, never gives fewer steps (and so, step  *)
(* by step, neither does any duration that is at least as long in every    *)
(* unit).                                                                  *)
C7_Monotonic ==
    [][(conv.err = "none" /\ freq' = freq) => conv'.periods >= conv.periods]_vars

\* Two quarters are 0 steps at the frequency of years (a tie, rounded to
\* even), two quarters and a month are 1 step.
C7_Witness ==
    /\ freq = "years"
    /\ dur = [bdays |-> 0, days |-> 0, weeks |-> 0, months |-> 1,
              quarters |-> 2, years |-> 0]
    /\ conv.periods = 1
    /\ convert_to_periods(freq, [dur EXCEPT !.months = 0]).periods = 0

----------------------------------------------------------------------------
(* C8: rel_change never aborts on a numeric edge: for every supported      *)
(* frequency, every duration, both values of future and of annualized and  *)
(* a series of any length, the call returns a series over the rows of the  *)
(* input.                                                                  *)
C8_RelChangeNeverAborts ==
    (Called("rel_change") /\ Lower(call.freq) \in SupportedFreqs) =>
    /\ out.err = "none"
    /\ IndexOf(out.df) = IndexOf(df)

----------------------------------------------------------------------------
(* C9: an unsupported frequency string makes convert_to_periods, and       *)
(* rel_change and mean_log_change, raise ValueError and return nothing; a  *)
(* supported frequency string never raises it.                             *)
C9_UnsupportedFreq ==
    out # Pending =>
    IF Lower(call.freq) \in SupportedFreqs
    THEN out.err # "ValueError"
    ELSE out.err = "ValueError" /\ out.df = NoFrame

C9_Witness ==
    /\ Called("mean_log_change")
    /\ call.freq = "x" /\ call.min_quarters < call.max_quarters
    /\ Len(df.rows) > 0
    /\ out.err = "ValueError"

----------------------------------------------------------------------------
(* C10: mean_log_change with future = true and annualized = false, min_p   *)
(* >= 1: for every entity and every row t whose window of rows t+min_p ..  *)
(* t+max_p-1 lies inside the entity's series, the result is                *)
(* (1/n) * sum over k in [min_p, max_p) of (log s[t+k] - log s[t]) / k,    *)
(* with n = max_p - min_p.                                                 *)
C10_MeanLogFuture ==
    (Called("mean_log_change") /\ out.err = "none"
        /\ call.future /\ ~call.annualized /\ out.min_periods >= 1) =>
    \A e \in Entities :
      LET s == ValsOf(df, e)
          r == ValsOf(out.df, e)
          min_p == out.min_periods
          max_p == out.max_periods
          n == max_p - min_p
      IN  \A t \in 1..Len(s) :
            t + max_p - 1 <= Len(s) =>
              r[t] = LScale(LSum([i \in 1..n |->
                                    LScale(LSub(Log(s[t + min_p + i - 1]), Log(s[t])),
                                           Rat(1, min_p + i - 1))]),
                            Rat(1, n))

----------------------------------------------------------------------------
----------------------------------------------------------------------------
(* C12: mean_log_change raises its invalid-argument error (the assertion   *)
(* min_periods < max_periods fails) and returns nothing whenever the       *)
(* converted step counts satisfy min_p >= max_p, also when the nominal     *)
(* minimum is strictly below the nominal maximum and both round to the     *)
(* same step count; it never raises it when min_p < max_p.                 *)
C12_MinBelowMax ==
    (Called("mean_log_change") /\ Lower(call.freq) \in SupportedFreqs) =>
    LET min_p == convert_to_periods(call.freq, MinDurOf(call)).periods
        max_p == convert_to_periods(call.freq, MaxDurOf(call)).periods
    IN  IF min_p >= max_p
        THEN out.err = "AssertionError" /\ out.df = NoFrame
        ELSE out.err # "AssertionError"

\* One and two quarters of yearly data: both are zero steps.
C12_Witness ==
    /\ Called("mean_log_change")
    /\ call.freq = "y" /\ call.min_quarters = 1 /\ call.max_quarters = 2
    /\ convert_to_periods("y", MinDurOf(call)).periods
         = convert_to_periods("y", MaxDurOf(call)).periods
    /\ Len(df.rows) > 0
    /\ out.err = "AssertionError"

----------------------------------------------------------------------------
(* What the properties of reindex speak of.                                *)

\* The positions of the rows of entity t in d that hold a value and whose
\* date is in the set S.
Observed(d, t, S) ==
    {j \in 1..Len(d.rows) :
        d.rows[j].ticker = t /\ d.rows[j].date \in S /\ ~IsNaN(d.rows[j].val)}

\* The value of the row with the greatest date among the positions P of d,
\* NaN if there is none.
LatestOf(d, P) ==
    IF P = {} THEN NaN
    ELSE d.rows[CHOOSE j \in P : \A k \in P : d.rows[k].date <= d.rows[j].date].val

\* The dates up to d.
UpTo(d) == {x \in 0..(MaxDate + 1) : x <= d}

\* The dates of the rows of entity t in d.
DatesOf(d, t) == {d.rows[j].date : j \in {k \in 1..Len(d.rows) : d.rows[k].ticker = t}}

\* A call of reindex with these arguments has returned.
Reindexed(union, only_target_index, method) ==
    /\ Called("reindex") /\ out.err = "none"
    /\ call.union = union /\ call.only_target_index = only_target_index
    /\ call.method = method

----------------------------------------------------------------------------
(* C13: reindex with union = true, only_target_index = true and forward    *)
(* fill: the result has the rows of the target, and at each target date d  *)
(* of an entity its value is the source observation of that entity with a  *)
(* value and the greatest date <= d, in the target grid or not, and NaN    *)
(* when there is none.                                                     *)
C13_ReindexForwardFill ==
    Reindexed(TRUE, TRUE, "ffill") =>
    /\ IndexOf(out.df) = IndexOf(call.df_target)
    /\ \A i \in 1..Len(out.df.rows) :
         LET r == out.df.rows[i]
         IN  r.val = LatestOf(df, Observed(df, r.ticker, UpTo(r.date)))

\* The last observation of A is at date 2, between the dates of the target,
\* and it is the value at the target date 3.
C13_Witness ==
    /\ Reindexed(TRUE, TRUE, "ffill")
    /\ DatesOf(call.df_target, "A") = {1, 3}
    /\ DatesOf(df, "A") = {1, 2}
    /\ ValsOf(df, "A") = << <<2, 1>>, <<3, 1>> >>
    /\ ValsOf(out.df, "A") = << <<2, 1>>, <<3, 1>> >>

----------------------------------------------------------------------------
(* C14: the keys (entity, date) of the result of reindex, each once: those *)
(* of the target when union = false, or when union = true and              *)
(* only_target_index = true; those of the source and of the target when    *)
(* union = true and only_target_index = false.  In a result on the grid of *)
(* the target an entity of the source alone has no row, and a key of the   *)
(* target whose entity has no observation in the source has the value NaN. *)
C14_ResultGrid ==
    (Called("reindex") /\ out.err = "none") =>
    LET keys == KeySet(IndexOf(out.df))
        source == KeySet(IndexOf(df))
        target == KeySet(IndexOf(call.df_target))
        on_target == ~call.union \/ call.only_target_index
    IN  /\ Cardinality(keys) = Len(out.df.rows)
        /\ keys = IF on_target THEN target ELSE source \cup target
        /\ on_target =>
             \A i \in 1..Len(out.df.rows) :
               LET r == out.df.rows[i]
               IN  /\ r.ticker \in {k[1] : k \in target}
                   /\ Observed(df, r.ticker, 0..(MaxDate + 1)) = {} => IsNaN(r.val)

\* The source has rows of B and a date of A that the target does not have,
\* and the result is on the grid of the target.
C14_Witness ==
    /\ Reindexed(TRUE, TRUE, "bfill")
    /\ DatesOf(call.df_target, "B") = {}
    /\ Observed(df, "B", 1..MaxDate) # {}
    /\ DatesOf(df, "A") = {2}
    /\ KeySet(IndexOf(out.df)) = {<<"A", 1>>, <<"A", MaxDate>>}

----------------------------------------------------------------------------
(* C15: reindex with union = false and forward fill sees the source only   *)
(* at the dates of the target: at each target date d of an entity the      *)
(* result is the source observation of that entity with a value and the    *)
(* greatest date that is <= d and a date of that entity in the target, NaN *)
(* when there is none; an observation at any other date changes no value.  *)
C15_ReindexWithoutUnion ==
    (Called("reindex") /\ out.err = "none"
        /\ ~call.union /\ call.method = "ffill") =>
    /\ IndexOf(out.df) = IndexOf(call.df_target)
    /\ \A i \in 1..Len(out.df.rows) :
         LET r == out.df.rows[i]
             seen == UpTo(r.date) \cap DatesOf(call.df_target, r.ticker)
         IN  r.val = LatestOf(df, Observed(df, r.ticker, seen))

\* The only observation of A is at date 2, the target has the dates 1 and
\* 3, and the result has no value.
C15_Witness ==
    /\ Called("reindex") /\ out.err = "none"
    /\ ~call.union /\ call.method = "ffill"
    /\ DatesOf(call.df_target, "A") = {1, 3}
    /\ Observed(df, "A", 1..MaxDate) # {}
    /\ DatesOf(df, "A") = {2}
    /\ \A i \in 1..Len(out.df.rows) : IsNaN(out.df.rows[i].val)

----------------------------------------------------------------------------
(* C16: reindex is idempotent: with union = true, only_target_index = true *)
(* and forward fill, backward fill or linear interpolation, reindexing the *)
(* result of reindex(source, target) to the same target gives that result  *)
(* again.                                                                  *)
C16_ReindexIdempotent ==
    \A m \in {"ffill", "bfill", "linear"} :
        Reindexed(TRUE, TRUE, m) => reindex(out.df, call) = out

\* A result with a row that the source does not have, filled with a value.
C16_Witness ==
    /\ \E m \in {"ffill", "bfill", "linear"} : Reindexed(TRUE, TRUE, m)
    /\ \E i \in 1..Len(out.df.rows) :
         /\ ~IsNaN(out.df.rows[i].val)
         /\ <<out.df.rows[i].ticker, out.df.rows[i].date>> \notin KeySet(IndexOf(df))
    /\ \E i \in 1..Len(out.df.rows) : IsNaN(out.df.rows[i].val)
    /\ reindex(out.df, call) = out

----------------------------------------------------------------------------
(* C17: reindex raises its type-mismatch error (the assertion that the two *)
(* indices have the same type fails) and returns nothing whenever one of   *)
(* the source and the target has a DatetimeIndex and the other a           *)
(* MultiIndex, whatever the method: the check comes before the method is   *)
(* resolved and before any reindexing.  With indices of the same kind the  *)
(* error never occurs.                                                     *)
C17_IndexTypesMatch ==
    Called("reindex") =>
    IF df.kind # call.df_target.kind
    THEN out = NoResult("AssertionError")
    ELSE out.err # "AssertionError"

\* The kinds differ and the method is no keyword: the assertion fails, not
\* the conversion of the method.
C17_Witness ==
    /\ Called("reindex")
    /\ df.kind = "DatetimeIndex" /\ call.df_target.kind = "MultiIndex"
    /\ call.method = "nearest"
    /\ out.err = "AssertionError"

----------------------------------------------------------------------------
(* C18: resample and reindex reject every value of the argument method     *)
(* that is not one of the keywords ffill, bfill, linear, quadratic and     *)
(* mean (nor a callable): the call raises ValueError and returns nothing,  *)
(* no default fill takes its place, and that includes None, the value of   *)
(* the argument when the caller of reindex omits it.  A keyword is never   *)
(* rejected.  The indices of the source and target of reindex are of the   *)
(* same kind, as it requires.                                              *)
C18_MethodRejected ==
    ((Called("resample") \/ Called("reindex"))
        /\ (call.op = "reindex" => df.kind = call.df_target.kind)) =>
    IF call.method \in {"ffill", "bfill", "linear", "quadratic", "mean"}
    THEN out.err = "none"
    ELSE out = NoResult("ValueError")

\* reindex without the argument method on a frame it could fill.
C18_Witness ==
    /\ Called("reindex")
    /\ df.kind = call.df_target.kind
    /\ call.method = "none"
    /\ \E i \in 1..Len(df.rows) : ~IsNaN(df.rows[i].val)
    /\ out = NoResult("ValueError")

----------------------------------------------------------------------------
----------------------------------------------------------------------------
(* C20: free_cash_flow is defined on every row of the Cash-Flow            *)
(* Statements: the result has their index and is named FCF, and on each    *)
(* row it is NET_CASH_OPS plus CAPEX with a missing operand taken as 0,    *)
(* so it is never NaN; 1000 and -200 give 800.                             *)

\* The object of the caller's variable name.
Input(name) == mem[CHOOSE i \in 1..Len(InputNames) : InputNames[i] = name]

\* The operand x of a sum, 0 when it is missing.
OrZero(x) == IF x[2] = 0 THEN <<0, 1>> ELSE x

C20_FreeCashFlow ==
    (Called("free_cash_flow") /\ out.err = "none" /\ ~out.changed) =>
        LET ops == Input("df_cashflow_ttm").data["NET_CASH_OPS"].rows
            capex == Input("df_cashflow_ttm").data["CAPEX"].rows
            fcf == SeriesOfObj(mem[out.ret]).rows
        IN  /\ mem[out.ret].type = "Series"
            /\ mem[out.ret].columns = <<"FCF">>
            /\ Len(fcf) = Len(ops)
            /\ \A i \in 1..Len(ops) :
                 /\ fcf[i].ticker = ops[i].ticker
                 /\ fcf[i].date = ops[i].date
                 /\ fcf[i].val[2] # 0
                 /\ fcf[i].val = RAdd(OrZero(ops[i].val), OrZero(capex[i].val))

\* free_cash_flow has returned for Cash-Flow Statements with the row
\* (1000, -200), a row without NET_CASH_OPS, a row without CAPEX and a row
\* without both.
C20_Witness ==
    /\ Called("free_cash_flow") /\ out.err = "none"
    /\ LET ops == Input("df_cashflow_ttm").data["NET_CASH_OPS"].rows
           capex == Input("df_cashflow_ttm").data["CAPEX"].rows
           fcf == SeriesOfObj(mem[out.ret]).rows
       IN  /\ \E i \in 1..Len(ops) :
                /\ ops[i].val = <<1000, 1>> /\ capex[i].val = <<-200, 1>>
                /\ fcf[i].val = <<800, 1>>
           /\ \E i \in 1..Len(ops) :
                /\ ops[i].val[2] = 0 /\ capex[i].val = <<-1, 1>>
                /\ fcf[i].val = <<-1, 1>>
           /\ \E i \in 1..Len(ops) :
                /\ ops[i].val = <<3, 1>> /\ capex[i].val[2] = 0
                /\ fcf[i].val = <<3, 1>>
           /\ \E i \in 1..Len(ops) :
                /\ ops[i].val[2] = 0 /\ capex[i].val[2] = 0
                /\ fcf[i].val = <<0, 1>>

----------------------------------------------------------------------------
(* C21: shares(df, index) has, on each row, the share-count of the column  *)
(* index where it is present, else the share-count of the other column     *)
(* (SHARES_BASIC for SHARES_DILUTED and the reverse), and is NaN only      *)
(* where both are missing; the result is a copy: when the caller changes   *)
(* it, df stays as it was.                                                 *)
C21_SharesFallback ==
    (Called("shares") /\ out.err = "none") =>
        LET index == call.a.index
            other == IF index = "SHARES_DILUTED" THEN "SHARES_BASIC"
                     ELSE "SHARES_DILUTED"
            first == Input("df_income_ttm").data[index].rows
            second == Input("df_income_ttm").data[other].rows
            res == SeriesOfObj(mem[out.ret]).rows
        IN  /\ Input("df_income_ttm") = InputsOf(call.world)[3]
            /\ mem[out.ret].type = "Series"
            /\ Len(res) = Len(first)
            /\ \A i \in 1..Len(first) :
                 /\ res[i].ticker = first[i].ticker
                 /\ res[i].date = first[i].date
                 /\ \/ out.changed /\ i = 1 /\ res[i].val = <<0, 1>>
                    \/ /\ ~(out.changed /\ i = 1)
                       /\ res[i].val = IF first[i].val[2] # 0 THEN first[i].val
                                       ELSE second[i].val
                       /\ res[i].val[2] = 0 <=>
                            (first[i].val[2] = 0 /\ second[i].val[2] = 0)

\* shares has returned the diluted share-counts of Income Statements with a
\* row where they are missing and the basic ones are 50 (it has 50), a row
\* where only the basic ones are missing and a row where both are, and the
\* caller has changed the first row of the result, 40 in df.
C21_Witness ==
    /\ Called("shares") /\ out.err = "none" /\ out.changed
    /\ call.a.index = "SHARES_DILUTED"
    /\ LET first == Input("df_income_ttm").data["SHARES_DILUTED"].rows
           second == Input("df_income_ttm").data["SHARES_BASIC"].rows
           res == SeriesOfObj(mem[out.ret]).rows
       IN  /\ first[1].val = <<40, 1>> /\ res[1].val = <<0, 1>>
           /\ \E i \in 2..Len(res) :
                first[i].val[2] = 0 /\ second[i].val = <<50, 1>>
                /\ res[i].val = <<50, 1>>
           /\ \E i \in 2..Len(res) :
                first[i].val = <<40, 1>> /\ second[i].val[2] = 0
                /\ res[i].val = <<40, 1>>
           /\ \E i \in 2..Len(res) :
                first[i].val[2] = 0 /\ second[i].val[2] = 0 /\ res[i].val[2] = 0


----------------------------------------------------------------------------
(* The refresh rule of the @cache wrapper, for cache_refresh None, a bool,  *)
(* an int, a path or a list of paths and a valid cache_format.             *)

\* The step is a call of the wrapper with such arguments.
CacheStep ==
    /\ "n" \in DOMAIN call /\ call'.n # call.n
    /\ call'.op = "wrapper"
    /\ call'.cache_refresh.type \in {"None", "bool", "int", "str", "list"}
    /\ call'.cache_format \in {"pickle", "pickle.gz", "parquet", "feather"}

\* The cache-file of the call of the step.
CachePath ==
    "cache/" \o call'.func
    \o (IF call'.cache_name = "None" THEN "" ELSE "-" \o call'.cache_name)
    \o "." \o call'.cache_format

\* The function was computed and the cache-file was written now.
CacheRefreshed ==
    /\ out'.err = "none" /\ out'.computed /\ out'.saved /\ ~out'.loaded
    /\ out'.ret = [func |-> call'.func, kwargs |-> call'.kwargs]
    /\ CachePath \in DOMAIN disk'
    /\ disk'[CachePath] = [mtime |-> now, content |-> out'.ret]
    /\ \A q \in DOMAIN disk' \ {CachePath} : q \in DOMAIN disk /\ disk'[q] = disk[q]

\* The cache-file was loaded and the function was not called.
CacheLoaded ==
    /\ out'.err = "none" /\ out'.loaded /\ ~out'.computed /\ ~out'.saved
    /\ out'.ret = disk[CachePath].content
    /\ disk' = disk

\* cache_refresh asks for a refresh of the cache-file that exists: older
\* says when the cache-file with modification time x counts as older than
\* a file with modification time y ("strict" or "or same").
AsksRefresh(older) ==
    LET r == call'.cache_refresh
        paths == IF r.type = "str" THEN <<r.path>> ELSE r.paths
    IN  \/ r.type = "bool" /\ r.flag
        \/ r.type = "int"
           /\ (r.days = 0 \/ r.days < (now - disk[CachePath].mtime) \div TicksPerDay)
        \/ r.type \in {"str", "list"}
           /\ \E i \in 1..Len(paths) :
                /\ paths[i] \in DOMAIN disk
                /\ IF older = "strict"
                   THEN disk[CachePath].mtime < disk[paths[i]].mtime
                   ELSE disk[CachePath].mtime <= disk[paths[i]].mtime

RefreshRule(older) ==
    CacheStep =>
        IF call'.cache_refresh.type = "None"
        THEN /\ out'.err = "none" /\ out'.computed
             /\ ~out'.loaded /\ ~out'.saved
             /\ out'.ret = [func |-> call'.func, kwargs |-> call'.kwargs]
             /\ disk' = disk
        ELSE IF CachePath \notin DOMAIN disk THEN CacheRefreshed
        ELSE IF AsksRefresh(older) THEN CacheRefreshed
        ELSE CacheLoaded

\* C22: with cache_refresh=None the function is always computed and the
\* cache-file neither read nor written; otherwise it is computed and the
\* file saved when the file does not exist, or cache_refresh is True, or
\* an integer that is 0 or lower than the file's age in whole days, or
\* paths and the cache-file is older than at least one of those files; in
\* every other case the file is loaded and the function is not called.
C22_RefreshRule == [][RefreshRule("strict")]_vars

\* What the wrapper does instead: with paths it also computes the function
\* again when the cache-file has the same modification time as one of the
\* files.
C22_RefreshOnTie == [][RefreshRule("or same")]_vars

\* A call with a list of paths has found the cache-file on disk and has
\* computed the function again and rewritten the file, which now has the
\* modification time of the dataset-file.
C22_RefreshedOnDisk ==
    /\ Called("wrapper") /\ call.cache_refresh.type = "list"
    /\ out.msg = "on disk" /\ out.computed /\ out.saved
    /\ disk[DatasetPaths[1]].mtime = now
    /\ disk["cache/f-a.pickle"].mtime = now


----------------------------------------------------------------------------
(* C23: the hub keeps its disk caches up to date: when a method of a new   *)
(* hub is called and one of the dataset-files that the method reads was    *)
(* downloaded after the cache-file of the method was written, the call     *)
(* computes the result again and rewrites the cache-file.                  *)

\* The step is a call of a method of a hub.
HubStep == "n" \in DOMAIN call /\ call'.n # call.n /\ call'.op = "hub"

\* The dataset-files that the method of the step reads: the share-prices
\* of the market, and the fundamental datasets of the companies, banks or
\* insurance companies of the market.
FilesRead ==
    LET ext == IF call'.hub.banks THEN "-banks"
               ELSE IF call'.hub.insurance THEN "-insurance" ELSE ""
        fundamental(names) ==
            {"data/us-" \o x \o ext \o "-" \o n \o ".csv" :
                x \in {"income", "balance", "cashflow"}, n \in names}
        prices(variants) == {"data/us-shareprices-" \o v \o ".csv" : v \in variants}
        variant == IF "variant" \in DOMAIN call'.a THEN {call'.a.variant} \ {"quarterly"}
                   ELSE {"daily"}
    IN  CASE call'.method \in {"returns", "mean_log_returns", "price_signals"} ->
                prices({"daily"})
          [] call'.method = "volume_signals" ->
                prices({"daily"}) \cup {"data/us-income" \o ext \o "-ttm.csv"}
          [] call'.method = "growth_signals" ->
                fundamental({"ttm", "quarterly"}) \cup prices(variant)
          [] call'.method \in {"fin_signals", "val_signals"} ->
                fundamental({"ttm"}) \cup prices(variant)

\* The cache-file of the method of the step.
HubCachePath ==
    "cache/" \o call'.func \o "-" \o call'.cache_name \o "." \o call'.cache_format

C23_CachesUpToDate ==
    [][(/\ HubStep
        /\ HubCachePath \in DOMAIN disk
        /\ \E p \in FilesRead : disk'[p].mtime > disk[HubCachePath].mtime)
       => (/\ out'.err = "none" /\ out'.computed /\ out'.saved
           /\ disk'[HubCachePath].mtime = now
           /\ disk'[HubCachePath].content = out'.ret)]_vars

\* The same for the hubs without banks=True and insurance=True, where the
\* code does keep the caches up to date.
C23_CachesOfCompanies ==
    [][(/\ HubStep
        /\ ~call'.hub.banks /\ ~call'.hub.insurance
        /\ HubCachePath \in DOMAIN disk
        /\ \E p \in FilesRead : disk'[p].mtime > disk[HubCachePath].mtime)
       => (/\ out'.err = "none" /\ out'.computed /\ out'.saved
           /\ disk'[HubCachePath].mtime = now
           /\ disk'[HubCachePath].content = out'.ret)]_vars

\* A method of a hub without banks and insurance has found its cache-file
\* on disk and has computed the result again from the datasets it has
\* just downloaded.
C23_RefreshedByHub ==
    /\ Called("hub") /\ call.n = 2
    /\ ~call.hub.banks /\ ~call.hub.insurance
    /\ out.msg = "on disk" /\ out.computed /\ out.saved
    /\ \A i \in 1..Len(call.kwargs.data) : call.kwargs.data[i] = now
    /\ now > 0


----------------------------------------------------------------------------

\* What growth_signals returns for the arguments of this call when the
\* panels of the caller are keyed by the default key, TICKER: the result
\* that the claim compares with.
WithDefaultKey ==
    LET w == [call.world EXCEPT !.level = TICKER]
    IN  RunBody(InputsOf(w),
                [p \in DOMAIN call.args |->
                    CHOOSE i \in 1..Len(InputNames) : InputNames[i] = call.args[p]],
                Body(call.op, [call.a EXCEPT !.group_index = TICKER]))

\* The call returned the rows that r returned.
SameResultAs(r) ==
    /\ out.err = r.err
    /\ out.err = "none" =>
           /\ mem[out.ret].columns = r.mem[r.ret].columns
           /\ mem[out.ret].data = r.mem[r.ret].data

\* C24: growth_signals performs every per-entity step (the three rel_change
\* computations, the optional func and the reindex onto the price grid)
\* grouped by the group_index of the caller: on panels keyed by an entity
\* key other than the default, with that key as group_index, it returns
\* the growth rates that it returns for the default key.
C24_GroupedByGroupIndex ==
    Called("growth_signals") /\ ~out.changed => SameResultAs(WithDefaultKey)

\* What the code does: the call of growth_signals on panels keyed by another
\* key than TICKER ends with the KeyError of rel_change, which groups by
\* its default; fin_signals and val_signals do group by the caller's key.
C24_GrowthKeyError ==
    /\ Called("growth_signals") /\ call.world.level # TICKER => out.err = "KeyError"
    /\ Called("fin_signals") \/ Called("val_signals") =>
           (~out.changed => SameResultAs(WithDefaultKey))

\* A call of fin_signals on panels keyed by SimFinId has returned signals.
C24_OtherKeyReached ==
    /\ Called("fin_signals") /\ out.err = "none"
    /\ call.world.level = "SimFinId" /\ call.a.group_index = "SimFinId"
    /\ call.a.func = "avg_ttm_2y" /\ call.a.has_prices


----------------------------------------------------------------------------

\* What val_signals returns for the arguments of this call without func.
WithoutFunc ==
    RunBody(SubSeq(mem, 1, Len(InputNames)),
            [p \in DOMAIN call.args |->
                CHOOSE i \in 1..Len(InputNames) : InputNames[i] = call.args[p]],
            Body(call.op, [call.a EXCEPT !.func = "none"]))

\* The column of the signals that val_signals has returned.
SignalOf(m, ret, column) == m[ret].data[column]

\* C25: in val_signals the share counts are fixed before func runs:
\* MARKET_CAP at every (entity, date) is the value it has when func is
\* absent.
C25_SharesBeforeFunc ==
    Called("val_signals") /\ out.err = "none" /\ ~out.changed =>
        LET r == WithoutFunc
        IN  /\ r.err = "none"
            /\ SignalOf(mem, out.ret, "MARKET_CAP") = SignalOf(r.mem, r.ret, "MARKET_CAP")

\* val_signals has returned with a func that changed the Sales per share,
\* and MARKET_CAP has numbers.
C25_Witness ==
    /\ Called("val_signals") /\ out.err = "none" /\ ~out.changed
    /\ call.a.func = "avg_ttm_2y" /\ call.a.offset = 1
    /\ LET r == WithoutFunc
       IN  /\ r.err = "none"
           /\ SignalOf(mem, out.ret, "PSALES") # SignalOf(r.mem, r.ret, "PSALES")
    /\ \E i \in 1..Len(SignalOf(mem, out.ret, "MARKET_CAP").rows) :
           LET row == SignalOf(mem, out.ret, "MARKET_CAP").rows[i]
           IN  row.val # NaN /\ row.val # Zero


----------------------------------------------------------------------------

\* The days that the offset of the call a adds to the dates of the reports.
LagOf(a) == IF a.offset = NoOffset THEN 0 ELSE a.offset

\* The DataFrame D of reports where the reports of the stock e whose date
\* with the lag is after d are others: dropped, or with the value 9.
OtherLaterReports(D, e, d, lag, mode) ==
    [c \in DOMAIN D |->
        LET later(r) == r.ticker = e /\ r.date + lag > d
            rows == IF mode = "drop"
                    THEN SelectSeq(D[c].rows, LAMBDA r : ~later(r))
                    ELSE [i \in 1..Len(D[c].rows) |->
                             IF later(D[c].rows[i])
                             THEN Row(e, D[c].rows[i].date, <<9, 1>>)
                             ELSE D[c].rows[i]]
        IN  Frame(D[c].kind, rows)]

\* The call a with other reports of cut.e after cut.d in every dataset of
\* fundamental data.
OtherLaterCall(a, cut) ==
    [a EXCEPT !.df_income_ttm = OtherLaterReports(@, cut.e, cut.d, LagOf(a), cut.mode),
              !.df_income_qrt = OtherLaterReports(@, cut.e, cut.d, LagOf(a), cut.mode),
              !.df_cashflow_ttm = OtherLaterReports(@, cut.e, cut.d, LagOf(a), cut.mode),
              !.df_cashflow_qrt = OtherLaterReports(@, cut.e, cut.d, LagOf(a), cut.mode)]

\* The rows of the signals D of the stock e at the dates up to d.
RowsUpTo(D, e, d) ==
    [c \in DOMAIN D |->
        SelectSeq(D[c].rows, LAMBDA r : r.ticker = e /\ r.date <= d)]

\* The stocks and dates at which the signals of two inputs are compared.
Cuts ==
    {[e |-> "A", d |-> 4, mode |-> "change"],
     [e |-> "A", d |-> 2, mode |-> "drop"],
     [e |-> "B", d |-> 1, mode |-> "drop"]}

\* C26: no look-ahead in the signal functions.  With forward fill and func
\* absent or avg_ttm_2y, the signals of fin_signals, growth_signals and
\* val_signals for the stock e at the dates up to d are the same for two
\* inputs that differ only in reports of e whose date with the offset is
\* after d.
C26_NoLookAhead ==
    (call.op \in {"growth_signals", "fin_signals", "val_signals"}
     /\ call.fill_method = "ffill" /\ out # Pending)
    => \A cut \in Cuts :
          RowsUpTo(out.df, cut.e, cut.d)
              = RowsUpTo(Signals(OtherLaterCall(call, cut)), cut.e, cut.d)

\* Two-year averages with the offset of the dates, reindexed to the daily
\* share-prices: a signal of A has a value at a date up to 4, and other
\* reports after that date give other signals.
C26_Witness ==
    /\ call.op \in {"growth_signals", "fin_signals", "val_signals"}
    /\ out # Pending
    /\ call.func = "avg_ttm_2y" /\ call.offset = 1 /\ call.has_prices
    /\ LET cut == [e |-> "A", d |-> 4, mode |-> "change"]
       IN  /\ Signals(OtherLaterCall(call, cut)) # out.df
           /\ \E c \in DOMAIN out.df :
                \E i \in 1..Len(RowsUpTo(out.df, "A", 4)[c]) :
                    ~IsNaN(RowsUpTo(out.df, "A", 4)[c][i].val)


----------------------------------------------------------------------------

\* The window of row t of a series of len rows lies inside the series: the
\* rows t+min_p .. t+max_p-1 after t, or t-max_p+1 .. t-min_p before t.
WindowInside(t, len, future, max_p) ==
    IF future THEN t + max_p - 1 <= len ELSE t - max_p + 1 >= 1

\* C27: mean_log_change is defined wherever its window is: for step counts
\* 0 <= min_p < max_p, also min_p = 0 and a window of one row, both values
\* of annualized and of future, the result at every row whose window lies
\* inside the series of positive numbers of its entity is a finite number.
C27_FiniteInWindow ==
    (Called("mean_log_change") /\ out.err = "none") =>
    \A e \in Entities :
      LET s == ValsOf(df, e)
          r == ValsOf(out.df, e)
      IN  \A t \in 1..Len(s) :
            WindowInside(t, Len(s), call.future, out.max_periods) =>
                r[t][1] = "fin"

\* Where the code gives a finite number: min_p is at least 1, an annualized
\* window has two rows or more, and a future window ends before the last
\* row of the series.
C27_FiniteWhen ==
    (Called("mean_log_change") /\ out.err = "none") =>
    \A e \in Entities :
      LET s == ValsOf(df, e)
          r == ValsOf(out.df, e)
          n == out.max_periods - out.min_periods
      IN  \A t \in 1..Len(s) :
            WindowInside(t, Len(s), call.future, out.max_periods) =>
                (r[t][1] = "fin" <=>
                    /\ out.min_periods >= 1
                    /\ call.annualized => n >= 2
                    /\ call.future => t + out.max_periods <= Len(s))

\* The default min duration: min_p = 0 and a window of the row itself and
\* the row before it, and no finite number in the result.
C27_MinZeroReached ==
    /\ Called("mean_log_change") /\ out.err = "none"
    /\ ~call.future /\ ~call.annualized
    /\ out.min_periods = 0 /\ out.max_periods = 2
    /\ Len(ValsOf(df, "A")) = 3
    /\ \A t \in 1..3 : ValsOf(out.df, "A")[t][1] # "fin"


----------------------------------------------------------------------------

\* C28: a cached call returns what the function computes for its own
\* arguments: each call of a wrapped function with cache_refresh other than
\* None that returns yields the value that the function produces for the
\* keyword arguments of that call, never a result stored by a call with
\* other arguments.
C28_OwnArguments ==
    [][(CacheStep /\ call'.cache_refresh.type # "None" /\ out'.err = "none")
        => out'.ret = Computed(call'.func, call'.kwargs)]_vars

\* What the wrapper returns instead: the result of the call that wrote the
\* cache-file named by the function and cache_name, whatever its keyword
\* arguments were, whenever it loads the file.
C28_ResultOfCacheFile ==
    [][(CacheStep /\ call'.cache_refresh.type # "None" /\ out'.err = "none")
        => /\ out'.loaded => out'.ret = disk[CachePath].content
           /\ ~out'.loaded => out'.ret = Computed(call'.func, call'.kwargs)]_vars

\* A cache-file holds the result of a call with other keyword arguments
\* than the last call, which returned that result.
C28_OtherResultReturned ==
    /\ call.op = "wrapper" /\ out # Pending /\ out.err = "none"
    /\ out.loaded
    /\ out.ret.kwargs # call.kwargs


----------------------------------------------------------------------------

\* A step of a call of _maybe_download.
DownloadStep == "pc" \in DOMAIN call /\ call'.op = "_maybe_download"

----------------------------------------------------------------------------
(* C30: trade signals alternate.  For each entity, along its series, the   *)
(* BUY and SELL rows of trade_signals strictly alternate (between two BUY  *)
(* rows there is a SELL row and between two SELL rows a BUY row), no row   *)
(* is both BUY and SELL, BUY implies HOLD and SELL implies not HOLD, and   *)
(* the first row of an entity is never BUY or SELL, whatever the last row  *)
(* of the entity before it in the panel is.                                *)
C30_TradeSignalsAlternate ==
    (Called("trade_signals") /\ out.err = "none") =>
    /\ IndexOf(out.df) = IndexOf(df)
    /\ \A e \in Entities :
         LET r == ValsOf(out.df, e)
         IN  /\ \A t \in 1..Len(r) :
                  /\ ~(r[t].BUY /\ r[t].SELL)
                  /\ r[t].BUY => r[t].HOLD
                  /\ r[t].SELL => ~r[t].HOLD
             /\ Len(r) >= 1 => ~r[1].BUY /\ ~r[1].SELL
             /\ \A t1, t2 \in 1..Len(r) :
                  t1 < t2 =>
                    /\ (r[t1].BUY /\ r[t2].BUY) => \E t \in (t1 + 1)..(t2 - 1) : r[t].SELL
                    /\ (r[t1].SELL /\ r[t2].SELL) => \E t \in (t1 + 1)..(t2 - 1) : r[t].BUY

\* The signals of A end above and those of B begin above and cross below:
\* A has bought, sold and bought again, and the first row of B is HOLD and
\* not BUY.
C30_Witness ==
    /\ Called("trade_signals") /\ out.err = "none"
    /\ LET a == ValsOf(out.df, "A")
           b == ValsOf(out.df, "B")
       IN  /\ Len(a) = 4 /\ Len(b) = 2
           /\ ~a[1].HOLD /\ a[2].BUY /\ a[3].SELL /\ a[4].BUY
           /\ b[1].HOLD /\ ~b[1].BUY /\ b[2].SELL

=============================================================================
